---- MODULE Spec2Model ----
(***************************************************************************)
(* A model of uk-schools-mcp: the bulk-dataset cache of the GIAS and the   *)
(* Ofsted clients (clients/gias.py, clients/ofsted.py), the tool boundary  *)
(* (server.py call_tool) and the tabular queries of the two clients.       *)
(*                                                                         *)
(* The specifications that share the module:                               *)
(*   SpecCache   the cache store and the fetchers, with concurrent calls   *)
(*               and a calendar that moves;                                *)
(*   SpecTool    call_tool, the boundary that turns exceptions into text;  *)
(*   SpecSearch  search_schools on tables that vary in the searched text;  *)
(*   SpecNear    find_schools_near on tables that vary in coordinates;     *)
(*   SpecQuery   the four lookups on tables that vary in status and in     *)
(*               how a field can be empty;                                 *)
(*   SpecInspect the single and the batch inspection lookup;               *)
(*   SpecRating  format_rating on codes given as text or integer;          *)
(*   SpecListing the search_schools tool on long tables;                   *)
(*   SpecLookup  the tools whose lookup can find nothing;                  *)
(*   SpecEes     discover_topic_datasets and its topic cache.              *)
(***************************************************************************)
EXTENDS Integers, Sequences, FiniteSets, TLC

VARIABLES
    kind,       \* cache: the client class under study, "gias" or "ofsted"
    today,      \* cache: date.today(), as a day number
    dirExists,  \* cache: whether the cache directory exists
    files,      \* cache: the cache files, file name -> content
    df,         \* cache: the client's _df
    task,       \* cache: each _ensure_data call: its position and its locals
    anyDone,    \* cache: periods whose own call has returned a table
    loaded,     \* cache: periods whose own call has read or downloaded its table
    call,       \* tool: the tool invocation at the boundary (server.py call_tool)
    ees,        \* tool: the EES client's _topic_cache and its last call
    table,      \* query: the GIAS table in memory
    mi,         \* query: the Ofsted table in memory
    op,         \* query: the operation applied last, with its arguments
    out         \* query: what that operation returned or raised

cacheVars == <<kind, today, dirExists, files, df, task, anyDone, loaded>>

toolVars == <<call, ees>>

queryVars == <<table, mi, op, out>>

vars == <<cacheVars, toolVars, queryVars>>

\* A step of one part of the model leaves the other parts alone.
NoCacheStep == UNCHANGED cacheVars

NoToolStep == UNCHANGED toolVars

NoQueryStep == UNCHANGED queryVars

-----------------------------------------------------------------------------
(* Bounds of the model. *)

\* The calendar runs over the days 0..MaxDay.
MaxDay == 2

\* Days in a calendar month of the model's calendar.
DaysPerMonth == 2

-----------------------------------------------------------------------------
(* Program constants. *)

\* gias.py:89  for days_back in range(5)
LookbackDays == 5

\* ofsted.py:175  if len(response.content) < 1000
MinPayloadBytes == 1000

-----------------------------------------------------------------------------
(* The client and its concurrent calls: one client object serves two     *)
(* tool invocations that may overlap (server.py:41-45 hands every          *)
(* invocation the same client).  NewClient replaces the client object by   *)
(* a new one on the same cache directory.                                  *)

Tasks == {"t1", "t2"}

\* self._df is None
None == <<>>

\* Table as it would be if the parse handed over a frame before it had read
\* the whole payload.
Table_partial(p) == <<-1>>

\* The table parsed from a payload: identified by the payload's version.
Table(p) == <<p.ver>>

\* The freshness period a day lies in, for each client class.
MonthOf(d) == d \div DaysPerMonth

\* cache_file as it would be if both classes keyed their file by the month.
cache_file_by_month(k, d) ==
    [name |-> IF k = "gias" THEN "gias" ELSE "ofsted_mi", key |-> MonthOf(d)]

\* gias.py:71 and ofsted.py:185-186: the cache file for today's freshness key.
cache_file(k, d) ==
    IF k = "gias" THEN [name |-> "gias", key |-> d]
                  ELSE [name |-> "ofsted_mi", key |-> MonthOf(d)]

\* gias.py:73 and ofsted.py:188: if cache_file.exists()
CacheHit(f) == f \in DOMAIN files

\* MemoryHit as it would be if the table in memory were dropped once the
\* cache directory holds no file of today's key (a refresh in mid-process).
MemoryHit_refreshing == df # None /\ CacheHit(cache_file(kind, today))

\* gias.py:68 and ofsted.py:182: if self._df is not None: return self._df
MemoryHit == df # None

\* gias.py:90: target_date = date.today() - timedelta(days=days_back)
target_date(days_back) == today - days_back

\* gias.py:95: if response.status_code == 200
IsSuccess(status) == status = 200

\* TooSmall as it would be if the floor itself were rejected.
TooSmall_inclusive(size) == size <= MinPayloadBytes

\* ofsted.py:175: if len(response.content) < 1000: raise
TooSmall(size) == size < MinPayloadBytes

\* A call that has not been made yet.
NoCall ==
    [pc |-> "idle", path |-> "none", exc |-> "none", key |-> cache_file("gias", 0),
     days_back |-> 0, urls |-> <<>>, tried |-> <<>>, size |-> 0,
     nreq |-> 0, ret |-> None,
     startDay |-> 0, freshFile |-> FALSE,
     afterAny |-> FALSE, afterLoad |-> FALSE]

\* The period of day d for client class k (a day for GIAS, a month for Ofsted).
PeriodOf(k, d) == IF k = "gias" THEN d ELSE MonthOf(d)

\* The locals of a call that starts now, and what it finds as it starts:
\* whether the directory holds a file of today's period, whether a call has
\* completed in today's period, and whether one has loaded today's table.
NewCall ==
    [NoCall EXCEPT
        !.key = cache_file(kind, today),
        !.startDay = today,
        !.freshFile = (\E f \in DOMAIN files :
                          /\ f.name = (IF kind = "gias" THEN "gias" ELSE "ofsted_mi")
                          /\ f.key = PeriodOf(kind, today)),
        !.afterAny = (PeriodOf(kind, today) \in anyDone),
        !.afterLoad = (PeriodOf(kind, today) \in loaded)]

\* WriteFile as it would be if the write cleared the directory of the files
\* of earlier periods.
WriteFile_pruning(f, p) == [g \in {f} |-> p]

\* WriteFile as it would be if the write were left out.
WriteFile_skipped(f, p) == files

\* gias.py:81 cache_file.write_bytes and ofsted.py:232 df.write_parquet:
\* files with file f (over)written with content p.
WriteFile(f, p) == [g \in DOMAIN files \cup {f} |-> IF g = f THEN p ELSE files[g]]

-----------------------------------------------------------------------------
(* The calendar. *)

Tick ==
    /\ today < MaxDay
    /\ today' = today + 1
    /\ UNCHANGED <<kind, dirExists, files, df, task, anyDone, loaded>>
    /\ NoToolStep /\ NoQueryStep

-----------------------------------------------------------------------------
(* _ensure_data, up to its first await (gias.py:66-79, ofsted.py:180-194). *)

\* Lines 68-69 / 182-183: the table is in memory.
StartMemory(t) ==
    /\ task[t].pc = "idle"
    /\ MemoryHit
    /\ task' = [task EXCEPT ![t] =
                  [NewCall EXCEPT !.path = "memory", !.ret = df]]
    /\ anyDone' = anyDone \cup {PeriodOf(kind, today)}
    /\ UNCHANGED <<kind, today, dirExists, files, df, loaded>>
    /\ NoToolStep /\ NoQueryStep

\* Lines 73-76 / 188-191: the cache file of today's key exists and is read.
\* A file that cannot be parsed makes read_csv / read_parquet raise.
StartDisk(t) ==
    LET f == cache_file(kind, today) IN
    /\ task[t].pc = "idle"
    /\ ~MemoryHit
    /\ CacheHit(f)
    /\ IF files[f].parses
          THEN /\ df' = Table(files[f])
               /\ task' = [task EXCEPT ![t] =
                            [NewCall EXCEPT !.path = "disk",
                                               !.ret = Table(files[f])]]
               /\ anyDone' = anyDone \cup {PeriodOf(kind, today)}
               /\ loaded' = loaded \cup {PeriodOf(kind, today)}
          ELSE /\ task' = [task EXCEPT ![t] =
                            [NewCall EXCEPT !.path = "disk", !.exc = "read"]]
               /\ UNCHANGED <<df, anyDone, loaded>>
    /\ UNCHANGED <<kind, today, dirExists, files>>
    /\ NoToolStep /\ NoQueryStep

\* Lines 78-79 and 89-94 (GIAS): no table and no file: _download_csv sends
\* its first request and awaits the response.
StartDownloadGias(t) ==
    LET f == cache_file(kind, today) IN
    /\ kind = "gias"
    /\ task[t].pc = "idle"
    /\ ~MemoryHit
    /\ ~CacheHit(f)
    /\ task' = [task EXCEPT ![t] =
                  [NewCall EXCEPT !.pc = "get", !.path = "download",
                                     !.days_back = 0,
                                     !.urls = <<target_date(0)>>,
                                     !.nreq = 1]]
    /\ UNCHANGED <<kind, today, dirExists, files, df, anyDone, loaded>>
    /\ NoToolStep /\ NoQueryStep

\* Lines 193-194 and 109-110 (Ofsted): no table and no file:
\* _find_download_url queries the content API and awaits the response.
StartDownloadOfsted(t) ==
    LET f == cache_file(kind, today) IN
    /\ kind = "ofsted"
    /\ task[t].pc = "idle"
    /\ ~MemoryHit
    /\ ~CacheHit(f)
    /\ task' = [task EXCEPT ![t] =
                  [NewCall EXCEPT !.pc = "api", !.path = "download",
                                     !.nreq = 1]]
    /\ UNCHANGED <<kind, today, dirExists, files, df, anyDone, loaded>>
    /\ NoToolStep /\ NoQueryStep

-----------------------------------------------------------------------------
(* GIAS: _download_csv after a response (gias.py:93-99) and the rest of    *)
(* _ensure_data (gias.py:80-85), which runs without another await.         *)

\* What the server may answer to a dated request: a status, or a transport
\* error (httpx.HTTPError).  The publisher's first file is that of day 0: a
\* request for an earlier date gets no 200.  A 200 carries the file of the
\* requested date, or bytes that read_csv cannot parse.
GiasStatuses == {200, 404}

Published(d) == d >= 0

\* Bytes that do not parse into a table.
Garbage == [ver |-> -1, parses |-> FALSE]

\* The bytes of the publisher's file of version v.
Good(v) == [ver |-> v, parses |-> TRUE]

\* The call's record once it has returned or raised.
Finish(r, how) == [r EXCEPT !.pc = "idle", !.exc = how]

\* Lines 95-96 then 80-85: a 200 ends the loop; the bytes are cached under
\* the key computed at line 71, then parsed, then assigned to _df.
GiasOk(t) ==
    LET r == task[t] IN
    /\ kind = "gias"
    /\ r.pc = "get"
    /\ \E status \in GiasStatuses, p \in {Good(r.urls[Len(r.urls)]), Garbage} :
         /\ Published(r.urls[Len(r.urls)])
         /\ IsSuccess(status)
         /\ dirExists' = TRUE
         /\ files' = WriteFile(r.key, p)
         /\ IF p.parses
               THEN /\ df' = Table(p)
                    /\ task' = [task EXCEPT ![t] =
                                 [Finish(r, "none") EXCEPT !.ret = Table(p)]]
                    /\ anyDone' = anyDone \cup {PeriodOf(kind, r.startDay)}
                    /\ loaded' = loaded \cup {PeriodOf(kind, r.startDay)}
               ELSE /\ task' = [task EXCEPT ![t] =
                                 Finish(r, "parse")]
                    /\ UNCHANGED <<df, anyDone, loaded>>
    /\ UNCHANGED <<kind, today>>
    /\ NoToolStep /\ NoQueryStep

\* Lines 95-98 then 89-94: a status other than 200, or an HTTPError, moves
\* to the next days_back while one is left; the next URL is formatted from
\* date.today() as it is then.
GiasRetry(t) ==
    LET r == task[t] IN
    /\ kind = "gias"
    /\ r.pc = "get"
    /\ \E status \in GiasStatuses, error \in BOOLEAN :
         /\ error \/ ~IsSuccess(status)
         /\ r.days_back + 1 < LookbackDays
         /\ task' = [task EXCEPT ![t] =
                       [r EXCEPT !.days_back = r.days_back + 1,
                                 !.urls = Append(r.urls, target_date(r.days_back + 1)),
                                 !.nreq = r.nreq + 1]]
    /\ UNCHANGED <<kind, today, dirExists, files, df, anyDone, loaded>>
    /\ NoToolStep /\ NoQueryStep

\* Line 99: the loop is exhausted: RuntimeError, through _ensure_data.
GiasExhausted(t) ==
    LET r == task[t] IN
    /\ kind = "gias"
    /\ r.pc = "get"
    /\ \E status \in GiasStatuses, error \in BOOLEAN :
         /\ error \/ ~IsSuccess(status)
         /\ ~(r.days_back + 1 < LookbackDays)
         /\ task' = [task EXCEPT ![t] = Finish(r, "RuntimeError")]
    /\ UNCHANGED <<kind, today, dirExists, files, df, anyDone, loaded>>
    /\ NoToolStep /\ NoQueryStep

-----------------------------------------------------------------------------
(* Ofsted: _find_download_url (ofsted.py:107-165), _download_mi_data       *)
(* (ofsted.py:167-178) and the rest of _ensure_data (ofsted.py:195-235).   *)

\* What a discovery strategy may end in: a matching link, no matching
\* link, or an exception inside its try block.
Discoveries == {"match", "nomatch", "exception"}

\* api_outcome as it would be without the except clause of line 133: an
\* exception of the first strategy leaves the function.
api_outcome_raising(r, d) ==
    IF d = "exception"
       THEN Finish([r EXCEPT !.tried = Append(r.tried, d)], "HTTPError")
       ELSE [r EXCEPT !.pc = IF d = "match" THEN "file" ELSE "page",
                      !.tried = Append(r.tried, d),
                      !.nreq = r.nreq + 1]

\* Lines 109-138: the call after the first strategy ended in d; tried
\* records how each strategy ended.
api_outcome(r, d) ==
    [r EXCEPT !.pc = IF d = "match" THEN "file" ELSE "page",
              !.tried = Append(r.tried, d),
              !.nreq = r.nreq + 1]

\* Lines 137-172: the call after the second strategy ended in d.
page_outcome(r, d) ==
    IF d = "match"
       THEN [r EXCEPT !.pc = "file", !.tried = Append(r.tried, d),
                      !.nreq = r.nreq + 1]
       ELSE Finish([r EXCEPT !.tried = Append(r.tried, d)], "RuntimeError")

\* Lines 109-134: the content API answered.  A match returns the URL and
\* _download_mi_data requests it (line 172); anything else falls through
\* to the HTML page (line 138).
OfstedApi(t) ==
    LET r == task[t] IN
    /\ kind = "ofsted"
    /\ r.pc = "api"
    /\ \E d \in Discoveries : task' = [task EXCEPT ![t] = api_outcome(r, d)]
    /\ UNCHANGED <<kind, today, dirExists, files, df, anyDone, loaded>>
    /\ NoToolStep /\ NoQueryStep

\* Lines 137-165: the HTML page answered.  A match returns the URL and the
\* file is requested; otherwise RuntimeError (line 161).
OfstedPage(t) ==
    LET r == task[t] IN
    /\ kind = "ofsted"
    /\ r.pc = "page"
    /\ \E d \in Discoveries : task' = [task EXCEPT ![t] = page_outcome(r, d)]
    /\ UNCHANGED <<kind, today, dirExists, files, df, anyDone, loaded>>
    /\ NoToolStep /\ NoQueryStep

\* Sizes of a downloaded payload, around the floor; the call records the
\* size of the payload it received.
Sizes == {MinPayloadBytes - 1, MinPayloadBytes}

\* Line 173: raise_for_status on the file's response (or a transport error).
OfstedFileError(t) ==
    LET r == task[t] IN
    /\ kind = "ofsted"
    /\ r.pc = "file"
    /\ task' = [task EXCEPT ![t] = Finish(r, "HTTPError")]
    /\ UNCHANGED <<kind, today, dirExists, files, df, anyDone, loaded>>
    /\ NoToolStep /\ NoQueryStep

\* Lines 175-178 then 195-235: the size check, mkdir, the parse, the
\* parquet file under the key computed at line 186, and last the
\* assignment to _df.
OfstedFile(t) ==
    LET r0 == task[t] IN
    /\ kind = "ofsted"
    /\ r0.pc = "file"
    /\ \E size \in Sizes, p \in {Good(today), Garbage} :
         LET r == [r0 EXCEPT !.size = size] IN
         IF TooSmall(size)
            THEN /\ task' = [task EXCEPT ![t] = Finish(r, "RuntimeError")]
                 /\ UNCHANGED <<dirExists, files, df, anyDone, loaded>>
            ELSE /\ dirExists' = TRUE
                 /\ IF p.parses
                       THEN /\ files' = WriteFile(r.key, p)
                            /\ df' = Table(p)
                            /\ task' = [task EXCEPT ![t] =
                                         [Finish(r, "none") EXCEPT !.ret = Table(p)]]
                            /\ anyDone' = anyDone \cup {PeriodOf(kind, r.startDay)}
                            /\ loaded' = loaded \cup {PeriodOf(kind, r.startDay)}
                       ELSE /\ task' = [task EXCEPT ![t] = Finish(r, "parse")]
                            /\ UNCHANGED <<files, df, anyDone, loaded>>
    /\ UNCHANGED <<kind, today>>
    /\ NoToolStep /\ NoQueryStep

-----------------------------------------------------------------------------
(* A new client object on the same cache directory (gias.py:58-61,         *)
(* ofsted.py:87-90): the process is started again, its calls are gone.     *)

NewClient ==
    /\ df' = None
    /\ task' = [t \in Tasks |-> NoCall]
    /\ UNCHANGED <<kind, today, dirExists, files, anyDone, loaded>>
    /\ NoToolStep /\ NoQueryStep

-----------------------------------------------------------------------------
(* The tool boundary: call_tool and its handlers (server.py:353-846).      *)

\* server.py:356-373: the names call_tool dispatches on.
RegisteredTools ==
    {"search_schools", "get_school_details", "find_schools_near_postcode",
     "compare_schools", "search_education_statistics",
     "get_publication_datasets", "get_dataset_metadata", "query_dataset",
     "get_ofsted_ratings"}

\* Names a caller may send: the registered ones and others.
ToolNames == RegisteredTools \cup {"nonexistent_tool", ""}

\* The argument objects a caller may send: one that holds the tool's
\* required keys, one that lacks them.
ArgumentKinds == {"complete", "empty"}

\* The key each handler reads with arguments["..."] first (server.py:413,
\* 494, 523, 571, 592, 616, 688, 764); _handle_search_schools only uses
\* arguments.get (server.py:382-385).
RequiredKey(name) ==
    CASE name = "get_school_details" -> "urn"
      [] name = "find_schools_near_postcode" -> "postcode"
      [] name = "compare_schools" -> "urns"
      [] name = "search_education_statistics" -> "topic"
      [] name = "get_publication_datasets" -> "publication_id"
      [] name = "get_dataset_metadata" -> "dataset_id"
      [] name = "query_dataset" -> "dataset_id"
      [] name = "get_ofsted_ratings" -> "urn"
      [] OTHER -> ""

\* No exception.
NoExc == [cls |-> "", arg |-> ""]

\* The exceptions the clients raise into a handler: gias.py:99,
\* ofsted.py:161 and 176 (RuntimeError), postcodes.py:36 (ValueError),
\* ofsted.py:173 raise_for_status (HTTPStatusError), a transport timeout
\* whose message is empty (ReadTimeout).
ClientErrors ==
    {[cls |-> "RuntimeError", arg |-> "Could not download GIAS data for any recent date"],
     [cls |-> "ValueError", arg |-> "Postcode not found: ZZ99"],
     [cls |-> "HTTPStatusError", arg |-> "Client error '404 Not Found'"],
     [cls |-> "ReadTimeout", arg |-> ""],
     [cls |-> "ColumnNotFoundError", arg |-> "Latitude"],
     [cls |-> "InvalidOperationError", arg |-> "conversion from str to f64 failed"]}

\* The classes derived from Exception among those raised here.
ExceptionClasses ==
    {"ValueError", "RuntimeError", "KeyError", "HTTPStatusError", "ReadTimeout",
     "ColumnNotFoundError", "InvalidOperationError"}

\* except clause of call_tool as it would be if it named ValueError only.
Catches_ValueError_only(cls) == cls = "ValueError"

\* server.py:376: except Exception as e
Catches(cls) == cls \in ExceptionClasses

\* str(e): the message, except that KeyError shows the repr of its key.
str_exc(e) == IF e.cls = "KeyError" THEN "'" \o e.arg \o "'" ELSE e.arg

\* TextContent(type="text", text=...)
TextContent(text) == [type |-> "text", text |-> text]

\* server.py:377: error_msg = f"Error calling {name}: {str(e)}"
error_msg(name, e) == "Error calling " \o name \o ": " \o str_exc(e)

\* The text a handler renders when its client found nothing (server.py:396,
\* 418, 512, 576, 598, 714, 769-777); compare_schools renders a heading in
\* every case (server.py:526).
EmptyText(name) ==
    CASE name = "search_schools" -> "No schools found matching your search criteria."
      [] name = "get_school_details" -> "No school found with URN"
      [] name = "find_schools_near_postcode" -> "No schools found within"
      [] name = "compare_schools" -> "# School Comparison"
      [] name = "search_education_statistics" -> "No publications found for topic"
      [] name = "get_publication_datasets" -> "No data sets found for publication"
      [] name = "get_dataset_metadata" -> "# Dataset Metadata"
      [] name = "query_dataset" -> "No data returned for this query. Try broadening your filters."
      [] name = "get_ofsted_ratings" -> "No Ofsted inspection data found for URN"
      [] OTHER -> ""

\* The text a handler renders from what its client found.
FoundText(name) == "<" \o name \o " result>"

\* No tool invocation yet.
NoToolCall ==
    [pc |-> "idle", name |-> "", args |-> "complete", raised |-> NoExc,
     propagated |-> NoExc, result |-> <<>>]

\* server.py:376-378: what call_tool does with an exception e raised inside
\* its try block: a caught one becomes the one text result, another one
\* leaves call_tool.
Except(c, e) ==
    IF Catches(e.cls)
       THEN [c EXCEPT !.pc = "done", !.raised = e,
                      !.result = <<TextContent(error_msg(c.name, e))>>]
       ELSE [c EXCEPT !.pc = "done", !.raised = e, !.propagated = e]

\* server.py:353-375: call_tool is invoked.  An unregistered name raises
\* ValueError (line 375); a handler that indexes a missing key raises
\* KeyError; otherwise the handler awaits its first client call (the
\* geocoder for find_schools_near_postcode, server.py:500).
CallTool ==
    /\ call.pc \in {"idle", "done"}
    /\ \E name \in ToolNames, args \in ArgumentKinds :
         LET c == [NoToolCall EXCEPT !.name = name, !.args = args] IN
         call' =
            IF name \notin RegisteredTools
               THEN Except(c, [cls |-> "ValueError", arg |-> "Unknown tool: " \o name])
            ELSE IF args = "empty" /\ RequiredKey(name) # ""
               THEN Except(c, [cls |-> "KeyError", arg |-> RequiredKey(name)])
            ELSE IF name = "find_schools_near_postcode"
               THEN [c EXCEPT !.pc = "geocode"]
            ELSE [c EXCEPT !.pc = "client"]
    /\ UNCHANGED ees
    /\ NoCacheStep /\ NoQueryStep

\* server.py:499-500: the geocoder answered with coordinates.
GeocodeReturns ==
    /\ call.pc = "geocode"
    /\ call' = [call EXCEPT !.pc = "client"]
    /\ UNCHANGED ees
    /\ NoCacheStep /\ NoQueryStep

\* postcodes.py:33-36: the geocoder raised.
GeocodeRaises ==
    /\ call.pc = "geocode"
    /\ \E e \in ClientErrors : call' = Except(call, e)
    /\ UNCHANGED ees
    /\ NoCacheStep /\ NoQueryStep

\* The client returned; the handler renders one text (found or nothing).
ClientReturns ==
    /\ call.pc = "client"
    /\ \E found \in BOOLEAN :
         call' = [call EXCEPT
                    !.pc = "done",
                    !.result = <<TextContent(IF found THEN FoundText(call.name)
                                                      ELSE EmptyText(call.name))>>]
    /\ UNCHANGED ees
    /\ NoCacheStep /\ NoQueryStep

\* The client raised inside the handler.
ClientRaises ==
    /\ call.pc = "client"
    /\ \E e \in ClientErrors : call' = Except(call, e)
    /\ UNCHANGED ees
    /\ NoCacheStep /\ NoQueryStep

-----------------------------------------------------------------------------
(* Text, as Python and polars handle it.  A value is a string or NULL      *)
(* (Python's None, a polars null).                                         *)

NULL == "<null>"

Digits == <<"0", "1", "2", "3", "4", "5", "6", "7", "8", "9">>

Lower == <<"a", "b", "c", "d", "e", "f", "g", "h", "i", "j", "k", "l", "m",
           "n", "o", "p", "q", "r", "s", "t", "u", "v", "w", "x", "y", "z">>

Upper == <<"A", "B", "C", "D", "E", "F", "G", "H", "I", "J", "K", "L", "M",
           "N", "O", "P", "Q", "R", "S", "T", "U", "V", "W", "X", "Y", "Z">>

\* str.isdigit on one character.
isdigit(c) == \E i \in 1..10 : Digits[i] = c

\* The value of a decimal digit.
DigitValue(c) == (CHOOSE i \in 1..10 : Digits[i] = c) - 1

\* str.isspace on one character.
isspace(c) == c \in {" ", "\t", "\n"}

\* One character in upper case.
UpperChar(c) ==
    IF \E i \in 1..26 : Lower[i] = c
       THEN Upper[CHOOSE i \in 1..26 : Lower[i] = c]
       ELSE c

\* str.upper / str.to_uppercase
RECURSIVE upper(_)
upper(s) == IF s = "" THEN "" ELSE UpperChar(Head(s)) \o upper(Tail(s))

RECURSIVE lstrip(_)
lstrip(s) == IF s # "" /\ isspace(Head(s)) THEN lstrip(Tail(s)) ELSE s

RECURSIVE rstrip(_)
rstrip(s) ==
    IF s # "" /\ isspace(SubSeq(s, Len(s), Len(s)))
       THEN rstrip(SubSeq(s, 1, Len(s) - 1))
       ELSE s

\* str.strip
strip(s) == rstrip(lstrip(s))

\* q in s (a literal substring)
Contains(s, q) ==
    \E i \in 1..(Len(s) - Len(q) + 1) : SubSeq(s, i, i + Len(q) - 1) = q

\* any(c.isdigit() for c in q)
any_isdigit(q) == \E i \in 1..Len(q) : isdigit(SubSeq(q, i, i))

\* The replacement as it would be if a match replaced the whole text.
replace_whole(s, old, new) == IF Contains(s, old) THEN new ELSE s

\* str.replace(old, new), for a non-empty old: left to right, no overlap.
RECURSIVE replace(_, _, _)
replace(s, old, new) ==
    IF Len(s) < Len(old) THEN s
    ELSE IF SubSeq(s, 1, Len(old)) = old
       THEN new \o replace(SubSeq(s, Len(old) + 1, Len(s)), old, new)
       ELSE Head(s) \o replace(Tail(s), old, new)

\* str(n) for an integer n.
RECURSIVE str_nat(_)
str_nat(n) == IF n < 10 THEN Digits[n + 1] ELSE str_nat(n \div 10) \o Digits[(n % 10) + 1]

str_int(n) == IF n < 0 THEN "-" \o str_nat(-n) ELSE str_nat(n)

\* Whether s is a decimal integer: an optional sign, then digits.
IsDecimal(s) ==
    LET body == IF s # "" /\ Head(s) \in {"-", "+"} THEN Tail(s) ELSE s IN
    /\ body # ""
    /\ \A i \in 1..Len(body) : isdigit(SubSeq(body, i, i))

RECURSIVE nat_of(_)
nat_of(s) ==
    IF s = "" THEN 0
    ELSE 10 * nat_of(SubSeq(s, 1, Len(s) - 1)) + DigitValue(SubSeq(s, Len(s), Len(s)))

\* The integer a decimal string denotes.
int_of(s) ==
    IF Head(s) = "-" THEN 0 - nat_of(Tail(s))
    ELSE IF Head(s) = "+" THEN nat_of(Tail(s))
    ELSE nat_of(s)

\* Python truthiness of an optional string: if query:
Truthy(x) == x # NULL /\ x # ""

-----------------------------------------------------------------------------
(* polars expressions.  A comparison with a null is null, and filter keeps *)
(* the rows whose predicate is true (not false, not null).                 *)

KTrue == "true"

KFalse == "false"

KNull == "null"

\* pl.col(c) == lit
col_eq(v, lit) == IF v = NULL THEN KNull ELSE IF v = lit THEN KTrue ELSE KFalse

\* pl.col(c).str.to_uppercase().str.contains(q, literal=True)
upper_contains(v, q) ==
    IF v = NULL THEN KNull ELSE IF Contains(upper(v), q) THEN KTrue ELSE KFalse

\* a | b
k_or(a, b) ==
    IF a = KTrue \/ b = KTrue THEN KTrue
    ELSE IF a = KNull \/ b = KNull THEN KNull
    ELSE KFalse

\* df.filter(predicate)
filter(rows, P(_)) == SelectSeq(rows, LAMBDA r : P(r) = KTrue)

\* df.head(n): the first n rows; for a negative n, all rows but the last -n.
head(rows, n) ==
    IF n >= 0
       THEN SubSeq(rows, 1, IF n < Len(rows) THEN n ELSE Len(rows))
       ELSE SubSeq(rows, 1, IF Len(rows) + n > 0 THEN Len(rows) + n ELSE 0)

\* The elements of a sequence.
Range(seq) == {seq[i] : i \in 1..Len(seq)}

\* A dict with key k set to v.
Put(d, k, v) == [x \in DOMAIN d \cup {k} |-> IF x = k THEN v ELSE d[x]]

EmptyDict == <<>>

-----------------------------------------------------------------------------
(* The outcome of a client operation: a value, None, or an exception.      *)

Return(v) == [kind |-> "return", none |-> FALSE, value |-> v, exc |-> "none"]

ReturnNone == [kind |-> "return", none |-> TRUE, value |-> <<>>, exc |-> "none"]

Raise(e) == [kind |-> "raise", none |-> FALSE, value |-> <<>>, exc |-> e]

\* "c" in df.columns
has_column(tb, c) == c \in Range(tb.columns)

-----------------------------------------------------------------------------
(* GIAS queries.  A table is its column names, in order, and its rows, in  *)
(* order; a row maps each column to a string or NULL, since the CSV is     *)
(* read with every column as text.                                         *)

SEARCH_COLUMNS ==
    << "URN", "EstablishmentName", "TypeOfEstablishment (name)",
       "EstablishmentStatus (name)", "PhaseOfEducation (name)",
       "StatutoryLowAge", "StatutoryHighAge", "SchoolCapacity",
       "NumberOfPupils", "Gender (name)", "ReligiousCharacter (name)",
       "AdmissionsPolicy (name)", "Street", "Locality", "Town",
       "County (name)", "Postcode", "SchoolWebsite", "TelephoneNum",
       "HeadFirstName", "HeadLastName", "HeadPreferredJobTitle",
       "OfstedLastInsp", "LA (name)", "PercentageFSM", "Latitude",
       "Longitude" >>

GIAS_DETAIL_URL(urn) ==
    "https://get-information-schools.service.gov.uk/Establishments/Establishment/Details/"
        \o str_int(urn)

\* The key as it would be without any replacement.
clean_key_unchanged(k) == k

\* The chain of replacements that turns a column name into a result key.
clean_key(k) ==
    LET k01 == replace(replace(k, " (name)", ""), " (code)", "")
        k02 == replace(k01, "EstablishmentName", "name")
        k03 == replace(k02, "TypeOfEstablishment", "type")
        k04 == replace(k03, "EstablishmentStatus", "status")
        k05 == replace(k04, "PhaseOfEducation", "phase")
        k06 == replace(k05, "ReligiousCharacter", "religious_character")
        k07 == replace(k06, "AdmissionsPolicy", "admissions_policy")
        k08 == replace(k07, "HeadFirstName", "head_first_name")
        k09 == replace(k08, "HeadLastName", "head_last_name")
        k10 == replace(k09, "HeadPreferredJobTitle", "head_job_title")
        k11 == replace(k10, "OfstedLastInsp", "ofsted_last_inspection")
        k12 == replace(k11, "LA", "local_authority")
        k13 == replace(k12, "TelephoneNum", "telephone")
        k14 == replace(k13, "SchoolWebsite", "website")
        k15 == replace(k14, "SchoolCapacity", "capacity")
        k16 == replace(k15, "NumberOfPupils", "number_of_pupils")
        k17 == replace(k16, "StatutoryLowAge", "age_low")
        k18 == replace(k17, "StatutoryHighAge", "age_high")
        k19 == replace(k18, "PercentageFSM", "fsm_percentage")
        k20 == replace(k19, "Gender", "gender")
    IN  replace(k20, "County", "county")

\* clean_key on the columns a projection can hold.
CleanKeys == [c \in Range(SEARCH_COLUMNS) |-> clean_key(c)]

\* The replacements of _row_to_dict, in the order they are applied: the
\* text searched for and the text put in its place.
Replacements ==
    << <<" (name)", "">>, <<" (code)", "">>,
       <<"EstablishmentName", "name">>,
       <<"TypeOfEstablishment", "type">>,
       <<"EstablishmentStatus", "status">>,
       <<"PhaseOfEducation", "phase">>,
       <<"ReligiousCharacter", "religious_character">>,
       <<"AdmissionsPolicy", "admissions_policy">>,
       <<"HeadFirstName", "head_first_name">>,
       <<"HeadLastName", "head_last_name">>,
       <<"HeadPreferredJobTitle", "head_job_title">>,
       <<"OfstedLastInsp", "ofsted_last_inspection">>,
       <<"LA", "local_authority">>,
       <<"TelephoneNum", "telephone">>,
       <<"SchoolWebsite", "website">>,
       <<"SchoolCapacity", "capacity">>,
       <<"NumberOfPupils", "number_of_pupils">>,
       <<"StatutoryLowAge", "age_low">>,
       <<"StatutoryHighAge", "age_high">>,
       <<"PercentageFSM", "fsm_percentage">>,
       <<"Gender", "gender">>,
       <<"County", "county">> >>

\* The key after the first n replacements.
RECURSIVE key_after(_, _)
key_after(k, n) ==
    IF n = 0 THEN k
    ELSE replace(key_after(k, n - 1), Replacements[n][1], Replacements[n][2])

\* _select_columns: the allow-listed columns the table has, in list order.
select_columns(columns) == SelectSeq(SEARCH_COLUMNS, LAMBDA c : c \in Range(columns))

\* The test as it would be if it kept every value.
is_present_always(v) == TRUE

\* v is not None and v != ""
is_present(v) == v # NULL /\ v # ""

\* One record of _row_to_dict: the columns in order, later keys overwrite.
RECURSIVE clean_row(_, _, _)
clean_row(cols, row, acc) ==
    IF cols = <<>> THEN acc
    ELSE LET k == Head(cols)
             v == row[k]
         IN  clean_row(Tail(cols), row,
                       IF is_present(v) THEN Put(acc, CleanKeys[k], v) ELSE acc)

\* _row_to_dict over the selected columns of some rows.
row_to_dict(cols, rows) ==
    [i \in 1..Len(rows) |-> clean_row(cols, rows[i], EmptyDict)]

StatusColumn == "EstablishmentStatus (name)"

\* The status filter as it would be if it were not applied at all.
open_only_disabled(tb) == tb.rows

\* if "EstablishmentStatus (name)" in df.columns: keep the rows equal to "Open"
open_only(tb) ==
    IF has_column(tb, StatusColumn)
       THEN filter(tb.rows, LAMBDA r : col_eq(r[StatusColumn], "Open"))
       ELSE tb.rows

\* The text filter as it would be if a query were always matched on the name only.
text_match_name_only(r, q) == upper_contains(r["EstablishmentName"], q)

\* The text filter of search_schools on one row, for the upper-cased query q.
text_match(r, q) ==
    IF any_isdigit(q)
       THEN k_or(upper_contains(r["Postcode"], q),
                 upper_contains(r["EstablishmentName"], q))
       ELSE upper_contains(r["EstablishmentName"], q)

\* The columns the filters of search_schools read.
search_needs(query, local_authority, phase) ==
    (IF Truthy(query)
        THEN (IF any_isdigit(upper(strip(query)))
                 THEN {"Postcode", "EstablishmentName"}
                 ELSE {"EstablishmentName"})
        ELSE {})
    \cup (IF Truthy(local_authority) THEN {"LA (name)"} ELSE {})
    \cup (IF Truthy(phase) THEN {"PhaseOfEducation (name)"} ELSE {})

\* The phase filter as it would be if it were skipped.
phase_filter_skipped(rows, phase) == rows

\* if phase: keep the rows whose phase contains it, case-insensitively
phase_filter(rows, phase) ==
    IF Truthy(phase)
       THEN filter(rows, LAMBDA r : upper_contains(r["PhaseOfEducation (name)"], upper(phase)))
       ELSE rows

search_schools(tb, query, local_authority, phase, limit) ==
    LET df0 == open_only(tb)
        df1 == IF Truthy(query)
                  THEN filter(df0, LAMBDA r : text_match(r, upper(strip(query))))
                  ELSE df0
        df2 == IF Truthy(local_authority)
                  THEN filter(df1, LAMBDA r : upper_contains(r["LA (name)"], upper(local_authority)))
                  ELSE df1
        df3 == phase_filter(df2, phase)
    IN  IF ~(search_needs(query, local_authority, phase) \subseteq Range(tb.columns))
           THEN Raise("ColumnNotFoundError")
           ELSE Return(row_to_dict(select_columns(tb.columns), head(df3, limit)))

get_school_by_urn(tb, urn) ==
    LET result == filter(tb.rows, LAMBDA r : col_eq(r["URN"], str_int(urn)))
        row == result[1]
        kept == {k \in Range(tb.columns) : is_present(row[k])}
    IN  IF ~has_column(tb, "URN") THEN Raise("ColumnNotFoundError")
        ELSE IF Len(result) = 0 THEN ReturnNone
        ELSE Return([k \in kept \cup {"gias_url"} |->
                        IF k = "gias_url" THEN GIAS_DETAIL_URL(urn) ELSE row[k]])

-----------------------------------------------------------------------------
(* The radius search.  Coordinates are whole degrees written as decimal    *)
(* text, the centre and the radius are integers, and a distance is kept as *)
(* its square, (111 dlat)^2 + (65 dlng)^2, so that comparisons are exact.  *)

KmPerDegreeLat == 111

KmPerDegreeLng == 65

\* a & b
k_and(a, b) ==
    IF a = KFalse \/ b = KFalse THEN KFalse
    ELSE IF a = KNull \/ b = KNull THEN KNull
    ELSE KTrue

\* pl.col(c).is_not_null()
is_not_null(v) == IF v = NULL THEN KFalse ELSE KTrue

\* pl.col(c) != lit
col_ne(v, lit) == IF v = NULL THEN KNull ELSE IF v # lit THEN KTrue ELSE KFalse

\* pl.col(c).cast(pl.Float64), strict: a null stays null, text that is not
\* a number is an error.
cast_float(v) ==
    IF v = NULL THEN [kind |-> "null", val |-> 0]
    ELSE IF IsDecimal(v) THEN [kind |-> "num", val |-> int_of(v)]
    ELSE [kind |-> "error", val |-> 0]

\* dlat.pow(2) + dlng.pow(2)
dist_squared(row_lat, row_lng, lat, lng) ==
    LET dlat == (row_lat - lat) * KmPerDegreeLat
        dlng == (row_lng - lng) * KmPerDegreeLng
    IN  dlat * dlat + dlng * dlng

\* The _distance_km column of one row, squared; null if a coordinate is null.
distance_column(r, lat, lng) ==
    LET la == cast_float(r["Latitude"])
        lo == cast_float(r["Longitude"])
    IN  IF la.kind = "num" /\ lo.kind = "num"
           THEN [kind |-> "num", val |-> dist_squared(la.val, lo.val, lat, lng)]
           ELSE [kind |-> "null", val |-> 0]

\* The radius test as it would be with a strict comparison.
within_radius_strict(d, radius_km) ==
    d.kind = "num" /\ radius_km >= 0 /\ d.val < radius_km * radius_km

\* pl.col("_distance_km") <= radius_km is true
within_radius(d, radius_km) ==
    d.kind = "num" /\ radius_km >= 0 /\ d.val <= radius_km * radius_km

\* df.sort(column): any arrangement of the rows with the keys ascending;
\* the order of rows with equal keys is not fixed.
sort(rows, key(_)) ==
    LET n == Len(rows)
        perms == {p \in [1..n -> 1..n] :
                     /\ \A i, j \in 1..n : p[i] = p[j] => i = j
                     /\ \A i, j \in 1..n : i < j => key(rows[p[i]]) <= key(rows[p[j]])}
    IN  {[i \in 1..n |-> rows[p[i]]] : p \in perms}

RECURSIVE bisect(_, _, _)
bisect(lo, hi, n) ==
    IF hi - lo <= 1 THEN lo
    ELSE LET mid == (lo + hi) \div 2
         IN  IF mid * mid <= n THEN bisect(mid, hi, n) ELSE bisect(lo, mid, n)

\* round(sqrt(d), 2), in hundredths of a kilometre.
round_km(d) ==
    LET n == 10000 * d
        whole == bisect(0, d + 1, d)
        r == bisect(100 * whole, 100 * (whole + 1), n)
    IN  IF n - r * r > r THEN r + 1 ELSE r

\* The outcomes find_schools_near can have.
find_schools_near(tb, lat, lng, radius_km, phase, limit) ==
    LET df0 == open_only(tb)
        df1 == phase_filter(df0, phase)
        df2 == filter(df1, LAMBDA r : k_and(is_not_null(r["Latitude"]),
                                            col_ne(r["Latitude"], "")))
        needs == {"Latitude", "Longitude"}
                     \cup (IF Truthy(phase) THEN {"PhaseOfEducation (name)"} ELSE {})
        cast_fails == \E i \in 1..Len(df2) :
                         \/ cast_float(df2[i]["Latitude"]).kind = "error"
                         \/ cast_float(df2[i]["Longitude"]).kind = "error"
        df3 == SelectSeq(df2, LAMBDA r : within_radius(distance_column(r, lat, lng), radius_km))
        cols == select_columns(tb.columns)
        record(r) == Put(clean_row(cols, r, EmptyDict), "distance_km",
                         round_km(distance_column(r, lat, lng).val))
    IN  IF ~(needs \subseteq Range(tb.columns)) THEN {Raise("ColumnNotFoundError")}
        ELSE IF cast_fails THEN {Raise("InvalidOperationError")}
        ELSE {Return([i \in 1..Len(head(df4, limit)) |-> record(head(df4, limit)[i])]) :
                 df4 \in sort(df3, LAMBDA r : distance_column(r, lat, lng).val)}

-----------------------------------------------------------------------------
(* Ofsted inspections.  The table's columns carry their cleaner names and  *)
(* every value is text or NULL.                                            *)

RatingCodes == <<"1", "2", "3", "4", "8", "9">>

RatingLabels == <<"Outstanding", "Good", "Requires Improvement", "Inadequate",
                  "Does not apply", "No judgement">>

\* format_rating on a code that is None or text.
format_rating(rating_code) ==
    IF rating_code = NULL THEN "Not yet inspected"
    ELSE IF \E i \in 1..6 : RatingCodes[i] = strip(rating_code)
       THEN RatingLabels[CHOOSE i \in 1..6 : RatingCodes[i] = strip(rating_code)]
       ELSE "Unknown (" \o rating_code \o ")"

ofsted_report_url(urn) == "https://reports.ofsted.gov.uk/provider/17/" \o str_int(urn)

grade_fields ==
    << "overall_effectiveness", "quality_of_education", "behaviour_and_attitudes",
       "personal_development", "leadership_and_management",
       "early_years_provision", "sixth_form_provision" >>

prev_grade_fields ==
    << "previous_overall_effectiveness", "previous_quality_of_education",
       "previous_behaviour_and_attitudes", "previous_personal_development",
       "previous_leadership_and_management" >>

text_fields ==
    << "school_name", "ofsted_phase", "type_of_education", "local_authority",
       "region", "inspection_start_date", "inspection_end_date",
       "inspection_type", "publication_date", "category_of_concern",
       "number_of_previous_inspections", "previous_inspection_start_date",
       "previous_publication_date" >>

\* row.get(field)
row_get(tb, row, field) == IF has_column(tb, field) THEN row[field] ELSE NULL

\* val is not None and str(val).strip() and str(val).strip() not in ("", "NULL", "None")
has_value(val) == val # NULL /\ strip(val) # "" /\ strip(val) \notin {"", "NULL", "None"}

\* pl.col("urn").cast(pl.Int64, strict=False) == urn
cast_int_eq(v, urn) ==
    IF v = NULL \/ ~IsDecimal(v) THEN KNull
    ELSE IF int_of(v) = urn THEN KTrue ELSE KFalse

\* The grade loops: a code and its label for each field that has a value.
RECURSIVE put_grades(_, _, _, _)
put_grades(fields, tb, row, acc) ==
    IF fields = <<>> THEN acc
    ELSE LET field == Head(fields)
             val == row_get(tb, row, field)
         IN  put_grades(Tail(fields), tb, row,
                IF has_value(val)
                   THEN Put(Put(acc, field, strip(val)),
                            field \o "_text", format_rating(strip(val)))
                   ELSE acc)

\* The text loop: the stripped text of each field that has a value.
RECURSIVE put_texts(_, _, _, _)
put_texts(fields, tb, row, acc) ==
    IF fields = <<>> THEN acc
    ELSE LET field == Head(fields)
             val == row_get(tb, row, field)
         IN  put_texts(Tail(fields), tb, row,
                IF has_value(val) THEN Put(acc, field, strip(val)) ELSE acc)

\* The row taken as it would be if the first matching row were used.
last_row_first(result) == result[1]

\* row = result.to_dicts()[-1]
last_row(result) == result[Len(result)]

get_inspection(tb, urn) ==
    LET exact == filter(tb.rows, LAMBDA r : col_eq(r["urn"], str_int(urn)))
        result == IF Len(exact) = 0
                     THEN filter(tb.rows, LAMBDA r : cast_int_eq(r["urn"], urn))
                     ELSE exact
        row == last_row(result)
        i0 == Put(EmptyDict, "urn", urn)
        i1 == put_grades(grade_fields, tb, row, i0)
        i2 == put_grades(prev_grade_fields, tb, row, i1)
        i3 == put_texts(text_fields, tb, row, i2)
    IN  IF ~has_column(tb, "urn") THEN Raise("ColumnNotFoundError")
        ELSE IF Len(result) = 0 THEN ReturnNone
        ELSE Return(Put(i3, "report_url", ofsted_report_url(urn)))

\* pl.col("urn").is_in(urn_strs)
is_in(v, values) == IF v = NULL THEN KNull ELSE IF v \in values THEN KTrue ELSE KFalse

\* pl.col("urn").cast(pl.Int64, strict=False).is_in(urns)
cast_int_is_in(v, urns) ==
    IF v = NULL \/ ~IsDecimal(v) THEN KNull
    ELSE IF int_of(v) \in urns THEN KTrue ELSE KFalse

\* int(urn_val): surrounding whitespace is allowed; text that is not an
\* integer raises ValueError.
py_int(v) ==
    IF IsDecimal(strip(v)) THEN [ok |-> TRUE, val |-> int_of(strip(v))]
                           ELSE [ok |-> FALSE, val |-> 0]

\* The formatting step as it would be if it read the first row of the
\* table only.
format_one_first_row(tb, urn_int) ==
    get_inspection([columns |-> tb.columns, rows |-> head(tb.rows, 1)], urn_int)

\* inspection = await self.get_inspection(urn_int)
format_one(tb, urn_int) == get_inspection(tb, urn_int)

\* get_inspections_batch: the URNs of the matched rows, each with what
\* get_inspection returns for it.
get_inspections_batch(tb, urns) ==
    LET urn_strs == {str_int(urns[i]) : i \in 1..Len(urns)}
        exact == filter(tb.rows, LAMBDA r : is_in(r["urn"], urn_strs))
        matched == IF Len(exact) = 0
                      THEN filter(tb.rows, LAMBDA r : cast_int_is_in(r["urn"], Range(urns)))
                      ELSE exact
        results == {py_int(matched[i]["urn"]).val :
                       i \in {j \in 1..Len(matched) :
                                 /\ matched[j]["urn"] # NULL
                                 /\ py_int(matched[j]["urn"]).ok}}
        formatted == {u \in results : ~format_one(tb, u).none}
    IN  IF ~has_column(tb, "urn") THEN Raise("ColumnNotFoundError")
        ELSE Return([u \in formatted |-> format_one(tb, u).value])

-----------------------------------------------------------------------------
(* The tables the queries run on, and the operations.                      *)

\* The most rows a table holds.
MaxRows == 2

\* The columns of the GIAS tables here: allow-listed ones and one that is not.
GiasColumns ==
    << "URN", "EstablishmentName", "EstablishmentStatus (name)",
       "PhaseOfEducation (name)", "Town", "Postcode", "LA (name)",
       "Latitude", "Longitude", "UKPRN" >>

\* The same without the status column.
GiasColumnsNoStatus == SelectSeq(GiasColumns, LAMBDA c : c # StatusColumn)

\* An open primary school.
BaseRow ==
    [c \in Range(GiasColumns) |->
        CASE c = "URN" -> "1"
          [] c = "EstablishmentName" -> "Test Academy"
          [] c = "EstablishmentStatus (name)" -> "Open"
          [] c = "PhaseOfEducation (name)" -> "Primary"
          [] c = "Town" -> "Bath"
          [] c = "Postcode" -> "TE1 1ST"
          [] c = "LA (name)" -> "Kent"
          [] c = "Latitude" -> "0"
          [] c = "Longitude" -> "0"
          [] c = "UKPRN" -> "9"]

With(row, c, v) == [row EXCEPT ![c] = v]

\* Rows that differ in the fields the text search reads.
TextRows ==
    {With(With(BaseRow, "EstablishmentName", n), "Postcode", pc) :
        n \in {"Test Academy", "Oak 2", NULL}, pc \in {"TE1 1ST", "ab2 9cd", NULL}}
    \cup {With(BaseRow, "LA (name)", la) : la \in {"Bath", NULL}}
    \cup {With(BaseRow, "PhaseOfEducation (name)", "Secondary"),
          With(BaseRow, "EstablishmentStatus (name)", "Closed")}

\* Rows that differ in the fields the radius search reads.
GeoRows ==
    {With(With(BaseRow, "Latitude", la), "Longitude", lo) :
        la \in {"0", "1", "2"}, lo \in {"0", "1"}}
    \cup {With(BaseRow, "Latitude", la) : la \in {NULL, ""}}
    \cup {With(With(BaseRow, "Latitude", "1"), "Longitude", lo) : lo \in {NULL, ""}}
    \cup {With(BaseRow, "PhaseOfEducation (name)", "Secondary"),
          With(BaseRow, "EstablishmentStatus (name)", "Closed")}

\* Rows that differ in status and in how a field can be empty.
MixedRows ==
    {With(BaseRow, "Town", t) : t \in {"Bath", NULL, "", "NULL", " None "}}
    \cup {With(With(BaseRow, "URN", "2"), "EstablishmentStatus (name)", st) :
            st \in {"Closed", "open", NULL}}
    \cup {With(With(BaseRow, "URN", "01"), "Town", "York")}

\* The sequences of at most MaxRows elements of a set.
SeqsUpTo(S) == UNION {[1..n -> S] : n \in 0..MaxRows}

\* A row restricted to some columns.
Project(row, columns) == [c \in Range(columns) |-> row[c]]

\* The tables with all the columns, and those without the status column.
TablesOf(pool) == {[columns |-> GiasColumns, rows |-> rs] : rs \in SeqsUpTo(pool)}

TablesWithoutStatus(pool) ==
    {[columns |-> GiasColumnsNoStatus, rows |-> rs] :
        rs \in SeqsUpTo({Project(r, GiasColumnsNoStatus) : r \in pool})}

EmptyTable == [columns |-> GiasColumns, rows |-> <<>>]

\* The columns of the Ofsted tables here, under their cleaner names.
MiColumns == <<"urn", "school_name", "overall_effectiveness", "inspection_type">>

BaseMiRow ==
    [c \in Range(MiColumns) |->
        CASE c = "urn" -> "1"
          [] c = "school_name" -> "Test Academy"
          [] c = "overall_effectiveness" -> "2"
          [] c = "inspection_type" -> "S5"]

MiRows ==
    {With(BaseMiRow, "overall_effectiveness", g) :
        g \in {"2", " 1 ", "7", NULL, "", "NULL", " None "}}
    \cup {With(BaseMiRow, "urn", u) : u \in {"01", "2", NULL}}
    \cup {With(BaseMiRow, "school_name", n) : n \in {"None", "  "}}

MiTables == {[columns |-> MiColumns, rows |-> rs] : rs \in SeqsUpTo(MiRows)}

EmptyMi == [columns |-> MiColumns, rows |-> <<>>]

\* The limits a caller passes: negative, zero, up to the size of a table.
Limits == -1..MaxRows

NoOp == [name |-> "none"]

\* One invocation is followed on each table: no operation changes the
\* table, so a later invocation would start where the first one did.
Fresh == op = NoOp

NoResult == [kind |-> "none", none |-> FALSE, value |-> <<>>, exc |-> "none"]

\* gias.py:139-177
SearchSchools(query, local_authority, phase, limit) ==
    /\ Fresh
    /\ op' = [name |-> "search_schools", query |-> query,
              local_authority |-> local_authority, phase |-> phase, limit |-> limit]
    /\ out' = search_schools(table, query, local_authority, phase, limit)
    /\ UNCHANGED <<table, mi>>
    /\ NoCacheStep /\ NoToolStep

\* gias.py:197-238
FindSchoolsNear(lat, lng, radius_km, phase, limit) ==
    /\ Fresh
    /\ op' = [name |-> "find_schools_near", lat |-> lat, lng |-> lng,
              radius_km |-> radius_km, phase |-> phase, limit |-> limit]
    /\ out' \in find_schools_near(table, lat, lng, radius_km, phase, limit)
    /\ UNCHANGED <<table, mi>>
    /\ NoCacheStep /\ NoToolStep

\* gias.py:179-195
GetSchoolByUrn(urn) ==
    /\ Fresh
    /\ op' = [name |-> "get_school_by_urn", urn |-> urn]
    /\ out' = get_school_by_urn(table, urn)
    /\ UNCHANGED <<table, mi>>
    /\ NoCacheStep /\ NoToolStep

\* ofsted.py:237-320
GetInspection(urn) ==
    /\ Fresh
    /\ op' = [name |-> "get_inspection", urn |-> urn]
    /\ out' = get_inspection(mi, urn)
    /\ UNCHANGED <<table, mi>>
    /\ NoCacheStep /\ NoToolStep

-----------------------------------------------------------------------------
(* The cache specification. *)

\* ofsted.py:322-357
GetInspectionsBatch(urns) ==
    /\ Fresh
    /\ op' = [name |-> "get_inspections_batch", urns |-> urns]
    /\ out' = get_inspections_batch(mi, urns)
    /\ UNCHANGED <<table, mi>>
    /\ NoCacheStep /\ NoToolStep

\* Inspection rows that differ in the stored identifier and in the grade.
InspectRows ==
    {With(With(BaseMiRow, "urn", u), "overall_effectiveness", g) :
        u \in {"1", "01", "2", "x", NULL}, g \in {"1", "2", NULL}}

InspectTables == {[columns |-> MiColumns, rows |-> rs] : rs \in SeqsUpTo(InspectRows)}

\* The lists of URNs a caller passes to the batch lookup.
UrnLists == {<<>>, <<1>>, <<3>>, <<1, 2>>, <<2, 1>>, <<1, 1>>}

\* ees.py:22-220: the keys of EES_TOPICS, in the order of the dict.
EES_TOPICS ==
    << "absence", "exclusions", "ks2_performance", "gcse_performance",
       "a_level_performance", "applications_offers", "workforce", "sen",
       "school_pupils_characteristics", "free_school_meals",
       "school_capacity", "admission_appeals", "destinations",
       "children_looked_after", "children_in_need", "mat_performance",
       "school_funding", "la_school_expenditure", "further_education",
       "early_years", "early_years_foundation", "neet",
       "elective_home_education" >>

\* The code points of the characters of the keys, in ascending order.
CodeOrder == "0123456789_abcdefghijklmnopqrstuvwxyz"

ord(c) == CHOOSE i \in 1..Len(CodeOrder) : SubSeq(CodeOrder, i, i) = c

\* a < b on str: the first differing character decides, a proper prefix is
\* smaller.
RECURSIVE str_lt(_, _)
str_lt(a, b) ==
    IF b = "" THEN FALSE
    ELSE IF a = "" THEN TRUE
    ELSE IF Head(a) = Head(b) THEN str_lt(Tail(a), Tail(b))
    ELSE ord(SubSeq(a, 1, 1)) < ord(SubSeq(b, 1, 1))

\* sorted(keys), for keys that differ from one another.
sorted(keys) ==
    LET S == Range(keys)
        rank(k) == Cardinality({j \in S : str_lt(j, k)})
    IN  [i \in 1..Len(keys) |-> CHOOSE k \in S : rank(k) = i - 1]

\* sep.join(parts)
RECURSIVE join(_, _)
join(sep, parts) ==
    IF Len(parts) = 0 THEN ""
    ELSE IF Len(parts) = 1 THEN parts[1]
    ELSE parts[1] \o sep \o join(sep, Tail(parts))

\* ees.py:349: ', '.join(sorted(EES_TOPICS.keys()))
AvailableTopics == join(", ", sorted(EES_TOPICS))

\* ees.py:347-350 as it would be if the message named the key only.
unknown_topic_message_bare(topic_key) == "Unknown topic '" \o topic_key \o "'."

\* ees.py:347-350: the message of the ValueError.
unknown_topic_message(topic_key) ==
    "Unknown topic '" \o topic_key \o "'. Available topics: "
        \o AvailableTopics

\* ees.py:361: publications[:5]
TopPublications == 5

\* The most publications a search answers with in the model.
MaxFound == 6

\* What the search request answers: an error status, or so many publications.
SearchError == -1

SearchAnswers == {SearchError} \cup 0..MaxFound

\* The publications whose data-set listing fails: none, all.
ListingFailures == {{}, 1..TopPublications}

NoTopicResult == [topic_key |-> "", publications |-> <<>>]

NoError == [cls |-> "", arg |-> ""]

\* ees.py:226-228: a new client; no call made.
NewEes ==
    [topic_cache |-> <<>>,
     last |-> [topic_key |-> "", made |-> FALSE, kind |-> "none", exc |-> NoError,
               value |-> NoTopicResult, requests |-> 0, failed |-> 0]]

\* ees.py:335-392: the topic cache after the call, what the call returned or
\* raised, the HTTP requests it issued and how many of them failed.  A failed listing is logged and
\* leaves the publication without data sets (ees.py:385-386).
discover_topic_datasets(topic_cache, topic_key, found, failing) ==
    LET shown == IF found < TopPublications THEN found ELSE TopPublications
        result ==
            [topic_key |-> topic_key,
             publications |->
                [i \in 1..shown |->
                    [id |-> i, datasets |-> IF i \in failing THEN <<>> ELSE <<"ds">>]]]
    IN  IF topic_key \in DOMAIN topic_cache
           THEN [topic_cache |-> topic_cache, kind |-> "return", exc |-> NoError,
                 value |-> topic_cache[topic_key], requests |-> 0, failed |-> 0]
        ELSE IF topic_key \notin Range(EES_TOPICS)
           THEN [topic_cache |-> topic_cache, kind |-> "raise",
                 exc |-> [cls |-> "ValueError", arg |-> unknown_topic_message(topic_key)],
                 value |-> NoTopicResult, requests |-> 0, failed |-> 0]
        ELSE IF found = SearchError
           THEN [topic_cache |-> topic_cache, kind |-> "raise",
                 exc |-> [cls |-> "HTTPStatusError", arg |-> ""],
                 value |-> NoTopicResult, requests |-> 1, failed |-> 1]
        ELSE [topic_cache |-> topic_cache @@ (topic_key :> result),
              kind |-> "return", exc |-> NoError, value |-> result,
              requests |-> 1 + shown,
              failed |-> Cardinality(failing \cap 1..shown)]

\* The topic keys a caller passes: two of the registry, three outside it.
TopicKeys == {"absence", "sen", "unknown", "", "Absence"}

\* ees.py:335-392
DiscoverTopicDatasets(topic_key, found, failing) ==
    LET r == discover_topic_datasets(ees.topic_cache, topic_key, found, failing)
    IN  /\ ees' = [topic_cache |-> r.topic_cache,
                   last |-> [topic_key |-> topic_key, made |-> TRUE, kind |-> r.kind,
                             exc |-> r.exc, value |-> r.value,
                             requests |-> r.requests, failed |-> r.failed]]
        /\ UNCHANGED call
        /\ NoCacheStep /\ NoQueryStep

\* server.py:385: the limit of search_schools when the argument is omitted,
\* and the largest limit handed to the client.
DefaultSearchLimit == 10

MaxSearchLimit == 50

\* The longest table of the listing specification.
MaxListing == 52

\* Tables of up to MaxListing schools numbered from 1, all open or every third
\* one closed.
LongTables ==
    {[columns |-> GiasColumns,
      rows |-> [i \in 1..n |->
                  With(With(BaseRow, "URN", str_nat(i)), StatusColumn,
                       IF closing /\ i % 3 = 0 THEN "Closed" ELSE "Open")]] :
        n \in 0..MaxListing, closing \in BOOLEAN}

\* The limit argument of the tool: integers (the schema gives no minimum).
ToolLimits ==
    {-2, -1, 0, 1, DefaultSearchLimit, MaxSearchLimit - 1, MaxSearchLimit,
     MaxSearchLimit + 1, 2 * MaxSearchLimit}

\* The arguments of the search_schools tool; has_limit is "limit" in arguments.
SearchArguments ==
    [query : {NULL, "test"}, local_authority : {NULL}, phase : {NULL},
     has_limit : {TRUE}, limit : ToolLimits]
    \cup [query : {NULL, "test"}, local_authority : {NULL}, phase : {NULL},
          has_limit : {FALSE}, limit : {0}]

\* server.py:385: min(arguments.get("limit", 10), 50)
handler_limit(arguments) ==
    LET given == IF arguments.has_limit THEN arguments.limit ELSE DefaultSearchLimit
    IN  IF given < MaxSearchLimit THEN given ELSE MaxSearchLimit

\* server.py:381-393: _handle_search_schools up to the client's result.
HandleSearchSchools(arguments) ==
    /\ Fresh
    /\ op' = [name |-> "search_schools_tool", arguments |-> arguments,
              limit |-> handler_limit(arguments)]
    /\ out' = search_schools(table, arguments.query, arguments.local_authority,
                             arguments.phase, handler_limit(arguments))
    /\ UNCHANGED <<table, mi>>
    /\ NoCacheStep /\ NoToolStep

\* server.py:495: the largest radius handed to the client.
MaxRadiusKm == 10

\* The JSON body postcodes.io answers with: its status and its result, a
\* location or null.
NoLocation == [none |-> TRUE, latitude |-> 0, longitude |-> 0]

Location(lat, lng) == [none |-> FALSE, latitude |-> lat, longitude |-> lng]

GeocoderResponses ==
    [status : {200, 404}, result : {NoLocation} \cup {Location(lat, 0) : lat \in {0, 1}}]

Postcodes == {"TE1 1ST", "ZZ99 9ZZ"}

\* postcodes.py:25-37
lookup(postcode, data) ==
    IF data.status # 200 \/ data.result.none
       THEN Raise("ValueError")
       ELSE Return(data.result)

\* postcodes.py:39-42
geocode(postcode, data) ==
    LET found == lookup(postcode, data)
    IN  IF found.kind = "raise"
           THEN found
           ELSE Return(<<found.value.latitude, found.value.longitude>>)

\* call_tool around a handler that made one client call: the client's
\* exception reaches the except clause, its result is rendered as the
\* handler's text for nothing found or for something found.
Rendered(name, outcome, absent, e) ==
    LET c == [NoToolCall EXCEPT !.name = name]
    IN  IF outcome.kind = "raise"
           THEN Except(c, e)
           ELSE [c EXCEPT !.pc = "done",
                          !.result = <<TextContent(IF absent THEN EmptyText(name)
                                                             ELSE FoundText(name))>>]

\* server.py:412-418 under call_tool
HandleGetSchoolDetails(urn) ==
    /\ Fresh
    /\ op' = [name |-> "get_school_details", urn |-> urn]
    /\ out' = get_school_by_urn(table, urn)
    /\ call' = Rendered("get_school_details", out', out'.none,
                        [cls |-> out'.exc, arg |-> ""])
    /\ UNCHANGED <<table, mi, ees>>
    /\ NoCacheStep

\* server.py:763-777 under call_tool
HandleGetOfstedRatings(urn) ==
    /\ Fresh
    /\ op' = [name |-> "get_ofsted_ratings", urn |-> urn]
    /\ out' = get_inspection(mi, urn)
    /\ call' = Rendered("get_ofsted_ratings", out', out'.none,
                        [cls |-> out'.exc, arg |-> ""])
    /\ UNCHANGED <<table, mi, ees>>
    /\ NoCacheStep

\* server.py:493-512 under call_tool: the geocoder, then the radius search.
HandleFindSchoolsNearPostcode(postcode, data, radius_km, limit) ==
    LET located == geocode(postcode, data)
        radius == IF radius_km < MaxRadiusKm THEN radius_km ELSE MaxRadiusKm
        capped == IF limit < MaxSearchLimit THEN limit ELSE MaxSearchLimit
    IN  /\ Fresh
        /\ op' = [name |-> "find_schools_near_postcode", postcode |-> postcode,
                  data |-> data]
        /\ IF located.kind = "raise"
              THEN out' = located
              ELSE out' \in find_schools_near(table, located.value[1], located.value[2],
                                              radius, NULL, capped)
        /\ call' = Rendered("find_schools_near_postcode", out',
                            out'.kind = "return" /\ Len(out'.value) = 0,
                            IF located.kind = "raise"
                               THEN [cls |-> "ValueError",
                                     arg |-> "Postcode not found: " \o postcode]
                               ELSE [cls |-> out'.exc, arg |-> ""])
        /\ UNCHANGED <<table, mi, ees>>
        /\ NoCacheStep

\* The largest integer rating code passed to format_rating.
MaxCode == 12

\* The inputs of format_rating: None, an integer, a text.
NoneInput == [type |-> "none", int |-> 0, text |-> ""]

IntInput(n) == [type |-> "int", int |-> n, text |-> ""]

TextInput(t) == [type |-> "str", int |-> 0, text |-> t]

\* Integers, their decimal text bare and padded with whitespace, and texts
\* that are not codes.
RatingInputs ==
    {NoneInput}
    \cup {IntInput(n) : n \in 0..MaxCode}
    \cup {TextInput(pre \o str_int(n) \o post) :
            n \in 0..MaxCode, pre \in {"", " "}, post \in {"", " ", "\n"}}
    \cup {TextInput(t) : t \in {"", " ", "1.0", "Good", "NULL", "None", "-1"}}

\* str(rating_code)
py_str(x) == IF x.type = "int" THEN str_int(x.int) ELSE x.text

\* format_rating on an input that is None, an integer or a text.
format_rating_of(x) ==
    IF x.type = "none" THEN format_rating(NULL) ELSE format_rating(py_str(x))

\* ofsted.py:100-105
FormatRating ==
    /\ op.name = "rating_code"
    /\ op' = [name |-> "format_rating", arg |-> op.arg]
    /\ out' = Return(format_rating_of(op.arg))
    /\ UNCHANGED <<table, mi>>
    /\ NoCacheStep /\ NoToolStep

\* A tool boundary that has not been called.
IdleTool == call = NoToolCall /\ ees = NewEes

\* No table under query.
IdleQuery ==
    /\ table = EmptyTable
    /\ mi = EmptyMi
    /\ op = NoOp
    /\ out = NoResult

\* A client just constructed, over an empty cache directory.
NewCache ==
    /\ today = 0
    /\ dirExists = FALSE
    /\ files = <<>>
    /\ df = None
    /\ task = [t \in Tasks |-> NoCall]
    /\ anyDone = {}
    /\ loaded = {}

InitCache ==
    /\ kind \in {"gias", "ofsted"}
    /\ NewCache
    /\ IdleTool
    /\ IdleQuery

NextCache ==
    \/ Tick
    \/ NewClient
    \/ \E t \in Tasks : StartMemory(t)
    \/ \E t \in Tasks : StartDisk(t)
    \/ \E t \in Tasks : StartDownloadGias(t)
    \/ \E t \in Tasks : StartDownloadOfsted(t)
    \/ \E t \in Tasks : GiasOk(t)
    \/ \E t \in Tasks : GiasRetry(t)
    \/ \E t \in Tasks : GiasExhausted(t)
    \/ \E t \in Tasks : OfstedApi(t)
    \/ \E t \in Tasks : OfstedPage(t)
    \/ \E t \in Tasks : OfstedFileError(t)
    \/ \E t \in Tasks : OfstedFile(t)

SpecCache == InitCache /\ [][NextCache]_vars

-----------------------------------------------------------------------------
(* The tool boundary specification. *)

InitTool ==
    /\ kind = "gias"
    /\ NewCache
    /\ IdleTool
    /\ IdleQuery

NextTool ==
    \/ CallTool
    \/ GeocodeReturns
    \/ GeocodeRaises
    \/ ClientReturns
    \/ ClientRaises

SpecTool == InitTool /\ [][NextTool]_vars

-----------------------------------------------------------------------------
(* The query specifications: a loaded table, and operations on it.         *)

\* The text queries a caller passes: none, empty, with a digit, without.
Queries == {NULL, "", "TE1", " te1 ", "test", "CD", "2"}

Authorities == {NULL, "kent"}

Phases == {NULL, "prim"}

InitSearch ==
    /\ kind = "gias"
    /\ NewCache
    /\ IdleTool
    /\ table \in TablesOf(TextRows)
    /\ mi = EmptyMi
    /\ op = NoOp
    /\ out = NoResult

NextSearch ==
    \E query \in Queries, local_authority \in Authorities,
       phase \in Phases, limit \in Limits :
        SearchSchools(query, local_authority, phase, limit)

SpecSearch == InitSearch /\ [][NextSearch]_vars

\* The centres and the radii of the radius searches, in degrees and km.
Centres == {0, 1}

Radii == {-1, 0, 65, 110, 111, 129}

InitNear ==
    /\ kind = "gias"
    /\ NewCache
    /\ IdleTool
    /\ table \in TablesOf(GeoRows)
    /\ mi = EmptyMi
    /\ op = NoOp
    /\ out = NoResult

NextNear ==
    \E lat \in Centres, radius_km \in Radii, phase \in Phases, limit \in Limits :
        FindSchoolsNear(lat, 0, radius_km, phase, limit)

SpecNear == InitNear /\ [][NextNear]_vars

Urns == {1, 2, 3}

InitQuery ==
    /\ kind = "gias"
    /\ NewCache
    /\ IdleTool
    /\ \/ /\ table \in TablesOf(MixedRows) \cup TablesWithoutStatus(MixedRows)
          /\ mi = EmptyMi
       \/ /\ table = EmptyTable
          /\ mi \in MiTables
    /\ op = NoOp
    /\ out = NoResult

NextQuery ==
    \/ \E query \in {NULL, "test", "TE1"}, local_authority \in Authorities,
          phase \in Phases, limit \in Limits :
           SearchSchools(query, local_authority, phase, limit)
    \/ \E radius_km \in {0, 111}, phase \in Phases, limit \in Limits :
           FindSchoolsNear(0, 0, radius_km, phase, limit)
    \/ \E urn \in Urns : GetSchoolByUrn(urn)
    \/ \E urn \in Urns : GetInspection(urn)

SpecQuery == InitQuery /\ [][NextQuery]_vars

-----------------------------------------------------------------------------
(* The listing specification: a long GIAS table and the search_schools     *)
(* tool handler.                                                           *)

InitListing ==
    /\ kind = "gias"
    /\ NewCache
    /\ IdleTool
    /\ table \in LongTables
    /\ mi = EmptyMi
    /\ op = NoOp
    /\ out = NoResult

NextListing == \E arguments \in SearchArguments : HandleSearchSchools(arguments)

SpecListing == InitListing /\ [][NextListing]_vars

-----------------------------------------------------------------------------
(* The lookup specification: the three lookups that can find nothing, each *)
(* from the tool's handler under call_tool.                                *)

InitLookup ==
    /\ kind = "gias"
    /\ NewCache
    /\ IdleTool
    /\ \/ /\ table \in TablesOf(MixedRows)
          /\ mi = EmptyMi
       \/ /\ table = EmptyTable
          /\ mi \in InspectTables
    /\ op = NoOp
    /\ out = NoResult

NextLookup ==
    \/ \E urn \in Urns : HandleGetSchoolDetails(urn)
    \/ \E urn \in Urns : HandleGetOfstedRatings(urn)
    \/ \E postcode \in Postcodes, data \in GeocoderResponses,
          radius_km \in {1, 129}, limit \in {1, 20} :
           HandleFindSchoolsNearPostcode(postcode, data, radius_km, limit)

SpecLookup == InitLookup /\ [][NextLookup]_vars

-----------------------------------------------------------------------------
(* The statistics specification: one EES client and its calls of           *)
(* discover_topic_datasets.                                                *)

InitEes ==
    /\ kind = "gias"
    /\ NewCache
    /\ IdleTool
    /\ IdleQuery

NextEes ==
    \E topic_key \in TopicKeys, found \in SearchAnswers, failing \in ListingFailures :
        DiscoverTopicDatasets(topic_key, found, failing)

SpecEes == InitEes /\ [][NextEes]_vars

-----------------------------------------------------------------------------
(* The rating specification: a rating code, and format_rating applied.     *)

InitRating ==
    /\ kind = "ofsted"
    /\ NewCache
    /\ IdleTool
    /\ table = EmptyTable
    /\ mi = EmptyMi
    /\ \E x \in RatingInputs : op = [name |-> "rating_code", arg |-> x]
    /\ out = NoResult

NextRating == FormatRating

SpecRating == InitRating /\ [][NextRating]_vars

-----------------------------------------------------------------------------
(* The inspection specification: a loaded Ofsted table, the single and the *)
(* batch lookup.                                                           *)

InitInspect ==
    /\ kind = "ofsted"
    /\ NewCache
    /\ IdleTool
    /\ table = EmptyTable
    /\ mi \in InspectTables
    /\ op = NoOp
    /\ out = NoResult

NextInspect ==
    \/ \E urn \in Urns : GetInspection(urn)
    \/ \E urns \in UrnLists : GetInspectionsBatch(urns)

SpecInspect == InitInspect /\ [][NextInspect]_vars

-----------------------------------------------------------------------------
(* Claims about the cache store and the fetchers, under SpecCache.         *)

\* A call that has been made (in flight, or the task's last one).
Made(r) == r.path # "none"

\* A call that has returned a table.
Returned(r) == Made(r) /\ r.pc = "idle" /\ r.exc = "none"

\* C1 as stated: once a call has completed with success, every later call
\* in the same freshness period issues no HTTP request.
C1_AnySuccessThenNoRequest ==
    \A t \in Tasks : (Made(task[t]) /\ task[t].afterAny) => task[t].nreq = 0

\* C1 as amended: once a call that computed the period's key has returned
\* the table it read from the cache file or downloaded (and so has not
\* been served a table its client loaded in an earlier period), every
\* later call in that period issues no HTTP request, on the same client
\* or on a new one.
C1_FreshLoadThenNoRequest ==
    \A t \in Tasks : (Made(task[t]) /\ task[t].afterLoad) => task[t].nreq = 0

\* C1's case: a new client, in a period whose table a call has already
\* loaded, is served from the cache file without a request.
C1_Witness ==
    \E t \in Tasks :
        /\ Returned(task[t])
        /\ task[t].path = "disk"
        /\ task[t].afterLoad
        /\ task[t].nreq = 0

\* No call of the client is past its first await.
NoneInFlight == \A t \in Tasks : task[t].pc = "idle"

\* C2 as stated: once _df is set it is never replaced while the client
\* object lives, whatever the interleaving of its calls.
C2_NeverReplaced ==
    [][(df # None /\ ~NewClient) => df' = df]_cacheVars

\* C2 as amended: once _df is set and no call of the client is in flight,
\* no call replaces it while the client object lives, also when the date
\* moves past the freshness period; only a call that was already
\* downloading when _df was set may still replace it.
C2_SettledNeverReplaced ==
    [][(df # None /\ NoneInFlight /\ ~NewClient)
           => (df' = df /\ NoneInFlight')]_cacheVars

\* C2's case: a call is served the table in memory although the directory
\* holds no file of the period the call starts in.
C2_Witness ==
    \E t \in Tasks :
        /\ Returned(task[t])
        /\ task[t].path = "memory"
        /\ task[t].ret = df
        /\ ~task[t].freshFile

\* The file name the claim gives for a day: gias_<date>.csv for the GIAS
\* client, ofsted_mi_<month>.parquet for the Ofsted client.
FreshName(k, d) ==
    IF k = "gias" THEN [name |-> "gias", key |-> d]
                  ELSE [name |-> "ofsted_mi", key |-> d \div DaysPerMonth]

\* C3: a call on a client without a table takes the disk path, which
\* issues no request and reads the file named for the current key, if and
\* only if that file exists when the call starts; otherwise it goes to the
\* network.  No file of another period is read.
C3_DiskIffFreshFile ==
    \A t \in Tasks :
        (Made(task[t]) /\ task[t].path # "memory") =>
            /\ (task[t].path = "disk") <=> task[t].freshFile
            /\ task[t].path = "disk" =>
                   /\ task[t].nreq = 0
                   /\ task[t].key = FreshName(kind, task[t].startDay)
            /\ task[t].path = "download" => task[t].nreq >= 1

\* C3's case: the Ofsted file written earlier in the month is loaded on a
\* later day of that month.
C3_Witness ==
    \E t \in Tasks :
        /\ kind = "ofsted"
        /\ Returned(task[t])
        /\ task[t].path = "disk"
        /\ task[t].ret[1] < task[t].startDay

\* C4: the dates _download_csv requests start with the date of the call
\* and are strictly descending; the body returned is that of the last
\* request made, the first to be answered 200.
C4_StrictlyDescending ==
    \A t \in Tasks :
        LET r == task[t] IN
        (kind = "gias" /\ r.path = "download") =>
            /\ r.urls[1] = r.startDay
            /\ \A i \in 1..(Len(r.urls) - 1) : r.urls[i + 1] < r.urls[i]
            /\ (Returned(r) => r.ret = <<r.urls[Len(r.urls)]>>)

-----------------------------------------------------------------------------
(* Claims about the tool boundary, under SpecTool.                         *)

\* C5: call_tool never propagates an exception.  Whatever the tool name
\* and whatever exception a handler or a client raises, the call ends with
\* exactly one text result, 'Error calling <tool name>: <message>', and
\* for a name that is not registered the message holds 'Unknown tool'.
C5_ErrorsBecomeOneText ==
    call.pc = "done" =>
        /\ call.propagated = NoExc
        /\ Len(call.result) = 1
        /\ call.result[1].type = "text"
        /\ call.raised # NoExc =>
               call.result[1].text =
                   "Error calling " \o call.name \o ": " \o str_exc(call.raised)
        /\ call.name \notin RegisteredTools =>
               /\ call.raised # NoExc
               /\ Contains(call.result[1].text, "Unknown tool")

\* C5's case: a client raised inside a registered tool's handler and the
\* caller got the one error text.
C5_Witness ==
    /\ call.pc = "done"
    /\ call.name = "find_schools_near_postcode"
    /\ call.raised.cls = "RuntimeError"
    /\ call.result =
           <<[type |-> "text",
              text |-> "Error calling find_schools_near_postcode: Could not download GIAS data for any recent date"]>>

-----------------------------------------------------------------------------
(* Claims about the records the queries return, under SpecQuery.           *)

\* The records the operation returned.
Records ==
    IF out.kind # "return" \/ out.none THEN {}
    ELSE IF op.name \in {"search_schools", "find_schools_near"} THEN Range(out.value)
    ELSE {out.value}

\* The keys of a record whose value is computed, not read from the row.
DerivedKeys ==
    {"distance_km", "gias_url", "urn", "report_url"}
        \cup {f \o "_text" : f \in Range(grade_fields) \cup Range(prev_grade_fields)}

\* A value the claim counts as absent.
EmptyLike(v) == v = NULL \/ v = "" \/ strip(v) \in {"NULL", "None"}

\* C6: no record of search_schools, find_schools_near, get_school_by_urn
\* or get_inspection holds a field whose source value is null, empty or,
\* once trimmed, the marker text 'NULL' or 'None'.
C6_NoEmptyField ==
    \A rec \in Records : \A k \in DOMAIN rec \ DerivedKeys : ~EmptyLike(rec[k])

\* C10: with a status column in the table, every record of search_schools
\* and find_schools_near is of an establishment whose status is 'Open';
\* without one the operations succeed and restrict nothing: with no other
\* filter and a limit that covers the table, every row is returned.
C10_OnlyOpen ==
    op.name \in {"search_schools", "find_schools_near"} =>
        /\ out.kind = "return"
        /\ has_column(table, StatusColumn) =>
               \A rec \in Records : "status" \in DOMAIN rec /\ rec["status"] = "Open"
        /\ ~has_column(table, StatusColumn) =>
               /\ \A rec \in Records : "status" \notin DOMAIN rec
               /\ ( /\ op.phase = NULL
                    /\ op.limit >= Len(table.rows)
                    /\ op.name = "search_schools" =>
                           op.query = NULL /\ op.local_authority = NULL )
                      => Len(out.value) = Len(table.rows)

\* C10's case: the table holds a closed establishment next to an open one
\* and the radius search returns the open one only.
C10_Witness ==
    /\ op.name = "find_schools_near"
    /\ has_column(table, StatusColumn)
    /\ \E i \in 1..Len(table.rows) : table.rows[i][StatusColumn] = "Closed"
    /\ out.kind = "return"
    /\ Len(out.value) = 1
    /\ out.value[1]["URN"] = "1"

-----------------------------------------------------------------------------
(* Claims about the radius search, under SpecNear.                         *)

\* The square of the planar distance the claim gives, from the centre of
\* the search to coordinates written as text.
PlanarSquared(lat_text, lng_text) ==
    LET dlat == 111 * (int_of(lat_text) - op.lat)
        dlng == 65 * (int_of(lng_text) - op.lng)
    IN  dlat * dlat + dlng * dlng

\* A row is open, matches the phase filter if there is one, has
\* coordinates, and lies within the radius.
Eligible(r) ==
    /\ has_column(table, StatusColumn) => r[StatusColumn] = "Open"
    /\ Truthy(op.phase) =>
           /\ r["PhaseOfEducation (name)"] # NULL
           /\ Contains(upper(r["PhaseOfEducation (name)"]), upper(op.phase))
    /\ r["Latitude"] \notin {NULL, ""}
    /\ r["Longitude"] \notin {NULL, ""}
    /\ op.radius_km >= 0
    /\ PlanarSquared(r["Latitude"], r["Longitude"])
           <= op.radius_km * op.radius_km

\* A record of the radius search without its distance.
WithoutDistance(rec) == [k \in DOMAIN rec \ {"distance_km"} |-> rec[k]]

\* The allow-listed fields of a row under their result keys.
Projection(r) == clean_row(select_columns(table.columns), r, EmptyDict)

\* C7: for a limit >= 0, the result of find_schools_near is made of
\* eligible rows only (open, phase matched, with coordinates, at a planar
\* distance <= R), each no more often than the table holds it, in
\* non-decreasing order of distance; it has min(limit, number of eligible
\* rows) records and its i-th record has fewer than i eligible rows
\* strictly nearer, so it holds the nearest ones.
C7_NearestEligibleSorted ==
    (op.name = "find_schools_near" /\ out.kind = "return" /\ op.limit >= 0) =>
        LET value == out.value
            k == Len(value)
            eligible == {j \in 1..Len(table.rows) : Eligible(table.rows[j])}
            sq(rec) == PlanarSquared(rec["Latitude"], rec["Longitude"])
            rowsq(j) == PlanarSquared(table.rows[j]["Latitude"], table.rows[j]["Longitude"])
        IN  /\ k = IF op.limit < Cardinality(eligible)
                      THEN op.limit ELSE Cardinality(eligible)
            /\ \A i \in 1..k :
                   /\ Cardinality({i2 \in 1..k : value[i2] = value[i]})
                        <= Cardinality({j \in eligible :
                               Projection(table.rows[j]) = WithoutDistance(value[i])})
                   /\ sq(value[i]) <= op.radius_km * op.radius_km
                   /\ Cardinality({j \in eligible : rowsq(j) < sq(value[i])}) <= i - 1
            /\ \A i, j \in 1..k : i < j => sq(value[i]) <= sq(value[j])

\* C7's case: two eligible rows, the farther one first in the table, and a
\* limit of one: the nearer row is the result.
C7_Witness ==
    /\ op.name = "find_schools_near"
    /\ out.kind = "return"
    /\ op.limit = 1
    /\ Len(table.rows) = 2
    /\ Eligible(table.rows[1])
    /\ Eligible(table.rows[2])
    /\ PlanarSquared(table.rows[2]["Latitude"], table.rows[2]["Longitude"])
         < PlanarSquared(table.rows[1]["Latitude"], table.rows[1]["Longitude"])
    /\ Len(out.value) = 1
    /\ WithoutDistance(out.value[1]) = Projection(table.rows[2])

-----------------------------------------------------------------------------
(* Claims about search_schools, under SpecSearch.                          *)

\* The text search the claim gives: the trimmed query, compared without
\* regard to case, is in the name, or, if it holds a digit, in the
\* postcode or in the name.
Passes(r, query) ==
    LET q == upper(strip(query))
        in_name == /\ r["EstablishmentName"] # NULL
                   /\ Contains(upper(r["EstablishmentName"]), q)
        in_postcode == /\ r["Postcode"] # NULL
                       /\ Contains(upper(r["Postcode"]), q)
    IN  IF \E i \in 1..Len(q) : SubSeq(q, i, i) \in Range(Digits)
           THEN in_postcode \/ in_name
           ELSE in_name

\* A field holds a text, compared without regard to case.
FieldHas(r, c, text) == r[c] # NULL /\ Contains(upper(r[c]), upper(text))

\* The local-authority and phase conditions that were supplied.
OtherConditions(r) ==
    /\ Truthy(op.local_authority) => FieldHas(r, "LA (name)", op.local_authority)
    /\ Truthy(op.phase) => FieldHas(r, "PhaseOfEducation (name)", op.phase)

\* A row is open, if the table tells.
IsOpen(r) == has_column(table, StatusColumn) => r[StatusColumn] = "Open"

\* The records of some rows.
RecordsOf(rows) == [i \in 1..Len(rows) |-> Projection(rows[i])]

\* C8: with a non-empty query and a limit that covers the table, the rows
\* search_schools returns are the open rows meeting the other filters
\* that pass the text search: name contains q, or, for a q with a digit,
\* postcode contains q or name contains q.
C8_TextSearch ==
    ( /\ op.name = "search_schools"
      /\ Truthy(op.query)
      /\ op.limit >= Len(table.rows)
      /\ out.kind = "return" ) =>
        out.value = RecordsOf(SelectSeq(table.rows,
                        LAMBDA r : IsOpen(r) /\ OtherConditions(r) /\ Passes(r, op.query)))

\* C8's case: the query 'TE1' returns the row with postcode 'TE1 1ST' and
\* name 'Test Academy', which it matches by postcode only.
C8_Witness ==
    /\ op.name = "search_schools"
    /\ op.query = "TE1"
    /\ out.kind = "return"
    /\ \E i \in 1..Len(out.value) :
          /\ "Postcode" \in DOMAIN out.value[i]
          /\ "name" \in DOMAIN out.value[i]
          /\ out.value[i]["Postcode"] = "TE1 1ST"
          /\ out.value[i]["name"] = "Test Academy"

\* Every condition that was supplied holds of a row.
AllSupplied(r) ==
    /\ Truthy(op.query) => Passes(r, op.query)
    /\ OtherConditions(r)

\* The first n rows; for a negative n, all rows but the last -n.
FirstRows(rows, n) ==
    LET m == IF n >= 0 THEN n ELSE Len(rows) + n
    IN  SubSeq(rows, 1, IF m < 0 THEN 0 ELSE IF m > Len(rows) THEN Len(rows) ELSE m)

\* C9 as stated: search_schools returns the first `limit` rows, in table
\* order, of the rows that satisfy all the supplied conditions.
C9_FirstOfAllSupplied ==
    (op.name = "search_schools" /\ out.kind = "return" /\ op.limit >= 0) =>
        out.value = RecordsOf(FirstRows(SelectSeq(table.rows, AllSupplied), op.limit))

\* C9 as amended: search_schools returns the first `limit` rows (for a
\* negative limit: all but the last -limit), in table order, of the OPEN
\* rows that satisfy all the supplied conditions; an omitted filter
\* imposes no condition, and for limit >= 0 there are at most `limit`.
C9_FirstOfOpenSupplied ==
    (op.name = "search_schools" /\ out.kind = "return") =>
        /\ out.value = RecordsOf(FirstRows(SelectSeq(table.rows,
                           LAMBDA r : IsOpen(r) /\ AllSupplied(r)), op.limit))
        /\ op.limit >= 0 => Len(out.value) <= op.limit

\* C9's case: the three filters are supplied, two open rows satisfy them
\* all, and a limit of one returns the first of the two.
C9_Witness ==
    /\ op.name = "search_schools"
    /\ Truthy(op.query) /\ Truthy(op.local_authority) /\ Truthy(op.phase)
    /\ op.limit = 1
    /\ Len(table.rows) = 2
    /\ table.rows[1] # table.rows[2]
    /\ \A i \in 1..2 : IsOpen(table.rows[i]) /\ AllSupplied(table.rows[i])
    /\ out.kind = "return"
    /\ out.value = <<Projection(table.rows[1])>>

-----------------------------------------------------------------------------
(* Claims about the lookups by identifier, under SpecQuery.                *)

\* The table a lookup reads and the column that holds the identifier.
LookupTable == IF op.name = "get_school_by_urn" THEN table ELSE mi

LookupColumn == IF op.name = "get_school_by_urn" THEN "URN" ELSE "urn"

\* The rows whose stored identifier is the decimal text of the integer.
TextMatches ==
    {i \in 1..Len(LookupTable.rows) :
        LookupTable.rows[i][LookupColumn] = str_int(op.urn)}

\* The rows whose stored identifier is text that denotes the integer.
NumericMatches ==
    {i \in 1..Len(LookupTable.rows) :
        LET v == LookupTable.rows[i][LookupColumn]
        IN  v # NULL /\ IsDecimal(v) /\ int_of(v) = op.urn}

\* The lookup applied to a table that holds row i only.
LookupOfRow(i) ==
    LET one == [columns |-> LookupTable.columns, rows |-> <<LookupTable.rows[i]>>]
    IN  IF op.name = "get_school_by_urn"
           THEN get_school_by_urn(one, op.urn)
           ELSE get_inspection(one, op.urn)

\* C11: get_school_by_urn and get_inspection find a row whenever some
\* row's stored identifier equals the integer as its decimal text or, if
\* none does, by numeric value; a row matching as text is preferred to
\* rows matching by value only.
C11_LookupFindsRow ==
    (op.name \in {"get_school_by_urn", "get_inspection"} /\ out.kind = "return") =>
        /\ (TextMatches \cup NumericMatches) # {} => ~out.none
        /\ (TextMatches # {} /\ ~out.none) =>
               \E i \in TextMatches : out = LookupOfRow(i)

-----------------------------------------------------------------------------
(* Claims about the inspection lookups, under SpecInspect.                 *)

\* The rows of the Ofsted table whose identifier matches a URN: those that
\* hold its decimal text or, if there is none, those that denote it.
MatchingRows(u) ==
    LET textual == {i \in 1..Len(mi.rows) : mi.rows[i]["urn"] = str_int(u)}
        numeric == {i \in 1..Len(mi.rows) :
                       LET v == mi.rows[i]["urn"]
                       IN  v # NULL /\ IsDecimal(v) /\ int_of(v) = u}
    IN  IF textual # {} THEN textual ELSE numeric

\* The last of some rows, in table order.
LastOf(S) == CHOOSE i \in S : \A j \in S : j <= i

\* The inspection record made from row i alone.
RecordOfRow(i, u) ==
    get_inspection([columns |-> mi.columns, rows |-> <<mi.rows[i]>>], u).value

\* C12: the record get_inspection returns, and every record of a
\* get_inspections_batch result, is the one made from the LAST row, in
\* table order, whose identifier matches the URN; no earlier row
\* contributes a field.
C12_LastRowWins ==
    /\ (op.name = "get_inspection" /\ out.kind = "return" /\ ~out.none) =>
           /\ MatchingRows(op.urn) # {}
           /\ out.value = RecordOfRow(LastOf(MatchingRows(op.urn)), op.urn)
    /\ (op.name = "get_inspections_batch" /\ out.kind = "return") =>
           \A u \in DOMAIN out.value :
               /\ MatchingRows(u) # {}
               /\ out.value[u] = RecordOfRow(LastOf(MatchingRows(u)), u)

\* C12's case: two rows for URN 1 with different grades, and a batch
\* lookup whose record for 1 holds the later row's grade.
C12_Witness ==
    /\ op.name = "get_inspections_batch"
    /\ out.kind = "return"
    /\ Len(mi.rows) = 2
    /\ mi.rows[1]["urn"] = "1"
    /\ mi.rows[2]["urn"] = "1"
    /\ mi.rows[1]["overall_effectiveness"] = "2"
    /\ mi.rows[2]["overall_effectiveness"] = "1"
    /\ 1 \in DOMAIN out.value
    /\ out.value[1]["overall_effectiveness"] = "1"

\* The keys of an inspection record that hold grades: the codes and their
\* text labels.
GradeKeys ==
    LET fields == Range(grade_fields) \cup Range(prev_grade_fields)
    IN  fields \cup {f \o "_text" : f \in fields}

\* C13: every record of a get_inspections_batch result has the urn and the
\* grade fields, codes and labels, of the record get_inspection returns
\* for that URN on the same table.
C13_BatchAgreesWithSingle ==
    (op.name = "get_inspections_batch" /\ out.kind = "return") =>
        \A u \in DOMAIN out.value :
            LET single == get_inspection(mi, u)
                rec == out.value[u]
            IN  /\ single.kind = "return"
                /\ ~single.none
                /\ rec["urn"] = u
                /\ single.value["urn"] = u
                /\ \A k \in GradeKeys :
                       /\ (k \in DOMAIN rec) <=> (k \in DOMAIN single.value)
                       /\ k \in DOMAIN rec => rec[k] = single.value[k]

\* C13's case: the batch finds URN 1 through a stored identifier '01' and
\* holds its grade.
C13_Witness ==
    /\ op.name = "get_inspections_batch"
    /\ out.kind = "return"
    /\ Len(mi.rows) = 2
    /\ mi.rows[1]["urn"] = "01"
    /\ mi.rows[2]["urn"] = "01"
    /\ mi.rows[1]["overall_effectiveness"] = "1"
    /\ mi.rows[2]["overall_effectiveness"] = "2"
    /\ DOMAIN out.value = {1}
    /\ out.value[1]["overall_effectiveness_text"] = "Good"

-----------------------------------------------------------------------------
(* Claims about get_school_by_urn, under SpecQuery.                        *)

\* The rows of the GIAS table whose URN is the decimal text of the urn.
UrnMatches == {i \in 1..Len(table.rows) : table.rows[i]["URN"] = str_int(op.urn)}

\* C14: get_school_by_urn returns None when no row's URN is the text of
\* the urn; otherwise it returns one record, made from the first such
\* row, that holds every non-empty column of the row under the column's
\* own name with the row's value, no column that is null or empty, no
\* key that is not a column, and gias_url, the detail-page URL of the urn.
C14_AllNonEmptyColumns ==
    (op.name = "get_school_by_urn" /\ out.kind = "return") =>
        /\ out.none <=> UrnMatches = {}
        /\ ~out.none =>
              LET row == table.rows[CHOOSE i \in UrnMatches : \A j \in UrnMatches : i <= j]
                  rec == out.value
              IN  /\ DOMAIN rec \subseteq Range(table.columns) \cup {"gias_url"}
                  /\ "gias_url" \in DOMAIN rec
                  /\ rec["gias_url"] =
                        "https://get-information-schools.service.gov.uk/Establishments/Establishment/Details/"
                            \o str_int(op.urn)
                  /\ \A c \in Range(table.columns) :
                        /\ ~EmptyLike(row[c]) => (c \in DOMAIN rec /\ rec[c] = row[c])
                        /\ row[c] \in {NULL, ""} => c \notin DOMAIN rec

\* C14's case: the record holds a column outside the allow-list and the
\* name under its column name, and leaves out the row's empty Town.
C14_Witness ==
    /\ op.name = "get_school_by_urn"
    /\ op.urn = 1
    /\ out.kind = "return"
    /\ ~out.none
    /\ Len(table.rows) = 2
    /\ table.rows[1]["URN"] = "2"
    /\ table.rows[2]["Town"] = ""
    /\ DOMAIN out.value =
           (Range(table.columns) \ {"Town"}) \cup {"gias_url"}
    /\ out.value["UKPRN"] = "9"
    /\ out.value["EstablishmentName"] = "Test Academy"

-----------------------------------------------------------------------------
(* Claims about the keys of the projected records, under SpecQuery.        *)

\* The columns whose presentation name the claim gives.
RenamedColumns ==
    {"EstablishmentName", "TypeOfEstablishment (name)", "EstablishmentStatus (name)",
     "PhaseOfEducation (name)", "LA (name)", "StatutoryLowAge", "StatutoryHighAge",
     "NumberOfPupils", "SchoolWebsite"}

\* The presentation name of an allow-listed column: the one the claim
\* gives or, for the other columns, the key the projection uses.
PresentationName(c) ==
    CASE c = "EstablishmentName" -> "name"
      [] c = "TypeOfEstablishment (name)" -> "type"
      [] c = "EstablishmentStatus (name)" -> "status"
      [] c = "PhaseOfEducation (name)" -> "phase"
      [] c = "LA (name)" -> "local_authority"
      [] c = "StatutoryLowAge" -> "age_low"
      [] c = "StatutoryHighAge" -> "age_high"
      [] c = "NumberOfPupils" -> "number_of_pupils"
      [] c = "SchoolWebsite" -> "website"
      [] OTHER -> CleanKeys[c]

-----------------------------------------------------------------------------
(* Claims about format_rating, under SpecRating.                           *)

\* The label the claim gives for an input.
ClaimedLabel(x) ==
    LET raw == IF x.type = "int" THEN str_int(x.int) ELSE x.text
        code == strip(raw)
    IN  CASE x.type = "none" -> "Not yet inspected"
          [] x.type # "none" /\ code = "1" -> "Outstanding"
          [] x.type # "none" /\ code = "2" -> "Good"
          [] x.type # "none" /\ code = "3" -> "Requires Improvement"
          [] x.type # "none" /\ code = "4" -> "Inadequate"
          [] x.type # "none" /\ code = "8" -> "Does Not Apply"
          [] x.type # "none" /\ code = "9" -> "No Judgement"
          [] OTHER -> "Unknown (" \o raw \o ")"

\* C16: format_rating returns, for every input, the label the claim
\* gives: 'Not yet inspected' for None; for the trimmed text of the input
\* '1' 'Outstanding', '2' 'Good', '3' 'Requires Improvement', '4'
\* 'Inadequate', '8' 'Does Not Apply', '9' 'No Judgement'; otherwise
\* 'Unknown (<input>)'.
C16_ClaimedLabels ==
    op.name = "format_rating" =>
        /\ out.kind = "return"
        /\ out.value = ClaimedLabel(op.arg)

-----------------------------------------------------------------------------
(* Claims about the search_schools tool, under SpecListing.                *)

\* C17: the search_schools tool never returns more than 50 schools, and the
\* limit it hands to the client is min(limit, 50), with 10 for an omitted
\* limit.
C17_AtMostFifty ==
    op.name = "search_schools_tool" =>
        /\ op.limit = (IF op.arguments.has_limit
                          THEN (IF op.arguments.limit < 50 THEN op.arguments.limit ELSE 50)
                          ELSE 10)
        /\ out.kind = "return"
        /\ Len(out.value) <= 50

-----------------------------------------------------------------------------
(* Claims about lookups that find nothing, under SpecLookup.               *)

\* The tool answered with its text for nothing found and raised nothing.
RenderedAbsent ==
    /\ call.raised = NoExc
    /\ call.result = <<TextContent(EmptyText(call.name))>>

\* The geocoder does not know the postcode.
UnknownPostcode == op.data.status # 200 \/ op.data.result.none

\* C18: a lookup that matches no row is an absent result and not a
\* failure: get_school_by_urn and get_inspection return None and their
\* tools answer with the 'No ... found' text, not with 'Error calling';
\* the lookup of a postcode the geocoder does not know gives an absent
\* result too and raises nothing.
C18_AbsentNotFailure ==
    /\ (op.name = "get_school_details" /\ UrnMatches = {}) =>
          (out = ReturnNone /\ RenderedAbsent)
    /\ (op.name = "get_ofsted_ratings" /\ MatchingRows(op.urn) = {}) =>
          (out = ReturnNone /\ RenderedAbsent)
    /\ (op.name = "find_schools_near_postcode" /\ UnknownPostcode) =>
          (out.kind = "return" /\ call.raised = NoExc)

-----------------------------------------------------------------------------
(* Claims about discover_topic_datasets, under SpecEes.                    *)

\* The message names the key as an item of its comma-separated list.
Lists(message, k) ==
    \/ Contains(message, " " \o k \o ",")
    \/ /\ Len(message) > Len(k)
       /\ SubSeq(message, Len(message) - Len(k), Len(message)) = " " \o k

\* The last call was made with a key outside the registry.
UnknownTopic == ees.last.made /\ ees.last.topic_key \notin Range(EES_TOPICS)

\* C19: discover_topic_datasets with a key that is not in EES_TOPICS raises
\* an error whose message lists every key of EES_TOPICS, issues no HTTP
\* request and adds nothing to the topic cache; the topic cache only ever
\* holds keys of EES_TOPICS.
C19_UnknownTopicFails ==
    /\ [](UnknownTopic =>
            /\ ees.last.kind = "raise"
            /\ ees.last.exc.cls = "ValueError"
            /\ \A k \in Range(EES_TOPICS) : Lists(ees.last.exc.arg, k)
            /\ ees.last.requests = 0)
    /\ [](DOMAIN ees.topic_cache \subseteq Range(EES_TOPICS))
    /\ [][(ees'.last.made /\ ees'.last.topic_key \notin Range(EES_TOPICS))
            => ees'.topic_cache = ees.topic_cache]_vars

\* An unknown key is refused by a client whose cache holds a topic.
C19_Witness ==
    /\ UnknownTopic
    /\ ees.last.kind = "raise"
    /\ DOMAIN ees.topic_cache # {}

-----------------------------------------------------------------------------
(* Claims about the files a load writes, under SpecCache.                  *)

\* The files that this step creates or gives another content.
Written == {f \in DOMAIN files' : f \notin DOMAIN files \/ files'[f] # files[f]}

\* Call t returns its downloaded table in this step.
DownloadReturns(t) ==
    /\ task[t].pc # "idle"
    /\ task[t].path = "download"
    /\ Returned(task'[t])

\* Call t is made in this step and is served from memory or from the file.
ServedWithoutDownload(t) ==
    /\ task[t].pc = "idle"
    /\ task'[t].pc = "idle"
    /\ Made(task'[t])
    /\ task'[t] # task[t]
    /\ task'[t].path \in {"memory", "disk"}

\* Call t, on the download path, returns or raises in this step.
DownloadEnds(t) ==
    /\ task[t].pc # "idle"
    /\ task[t].path = "download"
    /\ task'[t].pc = "idle"
    /\ task'[t].path = "download"

\* C20 as stated: every load that goes through the download path creates
\* the cache directory and writes one file, the one named for the
\* freshness key; a load served from memory or from the cache file writes
\* nothing; no step deletes or alters the file of another key.
C20_EveryDownloadWrites ==
    [][/\ \A t \in Tasks :
            DownloadEnds(t) =>
               /\ dirExists'
               /\ task[t].key = FreshName(kind, task[t].startDay)
               /\ task[t].key \in DOMAIN files'
               /\ Written \subseteq {task[t].key}
       /\ \A t \in Tasks :
            ServedWithoutDownload(t) => (files' = files /\ dirExists' = dirExists)
       /\ DOMAIN files \subseteq DOMAIN files'
       /\ \A f \in Written : \E t \in Tasks : DownloadEnds(t) /\ task[t].key = f
      ]_vars

\* C20 as amended: a load that returns a downloaded table has created the cache
\* directory and written one file, the one named for the freshness key of
\* the day the load started on, which holds the table it returns; a load
\* served from memory or from the cache file writes nothing and creates
\* nothing; no step deletes a file, and no step writes a file other than
\* the one of the key of the load that finishes in it.
C20_WritesOnlyOwnFile ==
    [][/\ \A t \in Tasks :
            DownloadReturns(t) =>
               /\ dirExists'
               /\ task[t].key = FreshName(kind, task[t].startDay)
               /\ task[t].key \in DOMAIN files'
               /\ Table(files'[task[t].key]) = task'[t].ret
               /\ Written \subseteq {task[t].key}
       /\ \A t \in Tasks :
            ServedWithoutDownload(t) => (files' = files /\ dirExists' = dirExists)
       /\ DOMAIN files \subseteq DOMAIN files'
       /\ \A f \in Written : \E t \in Tasks : DownloadEnds(t) /\ task[t].key = f
       /\ (Written # {} \/ dirExists) => dirExists'
      ]_vars

\* A download has returned its table while the directory holds the file of
\* an earlier period.
C20_Witness ==
    \E t \in Tasks :
        /\ Returned(task[t])
        /\ task[t].path = "download"
        /\ task[t].key \in DOMAIN files
        /\ \E f \in DOMAIN files : f.key < task[t].key.key

-----------------------------------------------------------------------------
(* Claims about overlapping loads, under SpecCache.                        *)

\* The table is the whole parse of one published file: it carries that
\* file's version and nothing of another.
CompleteParse(tb) == Len(tb) = 1 /\ tb[1] \in 0..MaxDay

\* C21: under every interleaving of the calls of one client, the table in
\* _df and every table returned to a caller is the whole parse of one
\* payload or of one cache file; and a step of the download path that
\* assigns _df has written the cache file of the load's key, which holds
\* the payload the assigned table was parsed from.
C21_OnlyCompleteTables ==
    /\ [](/\ df # None => CompleteParse(df)
          /\ \A t \in Tasks : Returned(task[t]) => CompleteParse(task[t].ret))
    /\ [][\A t \in Tasks :
            (DownloadEnds(t) /\ df' # df) =>
               /\ task[t].key \in DOMAIN files'
               /\ files'[task[t].key].parses
               /\ Table(files'[task[t].key]) = df'
               /\ task'[t].ret = df']_vars

\* Two calls of one client have both downloaded, and the second one to
\* finish has replaced the table of the first.
C21_Witness ==
    /\ \A t \in Tasks :
         Returned(task[t]) /\ task[t].path = "download" /\ task[t].nreq >= 1
    /\ \E t \in Tasks : task[t].ret # df
    /\ CompleteParse(df)

-----------------------------------------------------------------------------
(* Claims about the GIAS lookback window, under SpecCache.                 *)

\* The GIAS fetch of call t has raised its retrieval failure.
Exhausted(t) ==
    /\ kind = "gias"
    /\ task[t].path = "download"
    /\ task[t].pc = "idle"
    /\ task[t].exc = "RuntimeError"

\* C22: the GIAS fetch raises its retrieval failure only after the
\* candidate five days before today has been tried, the last of the
\* window (days_back 0 to 5, one request each); a fetch that has not
\* raised moved to the next days_back after each failure; the failed
\* fetch hands no table to its caller.
C22_ReachesFiveDaysBack ==
    \A t \in Tasks :
        /\ (kind = "gias" /\ task[t].path = "download") =>
              /\ Len(task[t].urls) = task[t].days_back + 1
              /\ task[t].nreq = Len(task[t].urls)
        /\ Exhausted(t) =>
              /\ task[t].days_back = 5
              /\ task[t].ret = None

-----------------------------------------------------------------------------
(* Claims about the discovery of the Ofsted file, under SpecCache.         *)

\* Call t is an Ofsted load on the download path.
Discovering(t) == kind = "ofsted" /\ task[t].path = "download"

\* C23: _find_download_url queries the content API first; it fetches the
\* HTML page only after the API ended without a match (no match or an
\* exception); it requests the file only after a strategy matched; it
\* raises exactly when both strategies ended without a match, and no
\* exception of the first strategy, and no other error than that failure
\* after the second, leaves the function.
C23_ApiThenPage ==
    \A t \in Tasks :
        Discovering(t) =>
            LET r == task[t]
                n == Len(r.tried)
                nourl == n = 2 /\ r.tried[1] # "match" /\ r.tried[2] # "match"
            IN  /\ n <= 2
                /\ r.pc = "api" <=> n = 0
                /\ r.pc = "page" <=> (n = 1 /\ r.tried[1] # "match")
                /\ n = 2 => r.tried[1] # "match"
                /\ r.pc = "file" => r.tried[n] = "match"
                /\ nourl <=> (r.pc = "idle" /\ r.tried[n] # "match")
                /\ nourl => r.exc = "RuntimeError"

\* The API raised, the page was fetched and matched, the file was loaded.
C23_Witness ==
    \E t \in Tasks :
        /\ Discovering(t)
        /\ task[t].tried = <<"exception", "match">>
        /\ Returned(task[t])

-----------------------------------------------------------------------------
(* Claims about the size floor of the Ofsted payload, under SpecCache.     *)

\* Call t receives the bytes of the file in this step.
FileReceived(t) ==
    /\ kind = "ofsted"
    /\ task[t].pc = "file"
    /\ task'[t].pc = "idle"
    /\ task'[t].size > 0

\* C24: an Ofsted payload of fewer than 1000 bytes makes the load raise the
\* fetch failure, and the step writes no file, creates no directory and
\* leaves _df as it was; a payload of 1000 bytes or more passes the size
\* check, so that the load goes on to create the directory and to parse.
C24_SizeFloor ==
    [][\A t \in Tasks :
         FileReceived(t) =>
            IF task'[t].size < 1000
               THEN /\ task'[t].exc = "RuntimeError"
                    /\ task'[t].ret = None
                    /\ files' = files
                    /\ dirExists' = dirExists
                    /\ df' = df
               ELSE /\ task'[t].exc \in {"none", "parse"}
                    /\ dirExists'
      ]_vars

\* One call was refused a payload of 999 bytes and handed no table, and
\* another call of the client loaded a payload of 1000 bytes.
C24_Witness ==
    \E t, u \in Tasks :
        /\ kind = "ofsted"
        /\ task[t].size = 999
        /\ task[t].exc = "RuntimeError"
        /\ task[t].ret = None
        /\ task[u].size = 1000
        /\ Returned(task[u])

-----------------------------------------------------------------------------
(* Claims about results made of the upstream calls that succeeded, under   *)
(* SpecEes.                                                                *)

\* C25: a call of discover_topic_datasets in which an upstream request
\* failed raises, returns no result and stores none under its topic.
C25_NoPartialResults ==
    (ees.last.made /\ ees.last.failed > 0) =>
        /\ ees.last.kind = "raise"
        /\ ees.last.value = NoTopicResult
        /\ ees.last.topic_key \notin DOMAIN ees.topic_cache

-----------------------------------------------------------------------------
(* Claims about rows without coordinates, under SpecNear.                  *)

\* The value is null or empty.
Blank(v) == v = NULL \/ v = ""

\* The table holds a row whose latitude or longitude is null or empty.
HasBlankCoordinate ==
    \E i \in 1..Len(table.rows) :
        Blank(table.rows[i]["Latitude"]) \/ Blank(table.rows[i]["Longitude"])

\* C26: a row whose latitude or longitude is null or empty never makes
\* find_schools_near fail and never appears among its results: every
\* record returned carries both coordinates.
C26_BlankCoordinatesExcluded ==
    op.name = "find_schools_near" =>
        /\ HasBlankCoordinate => out.kind = "return"
        /\ out.kind = "return" =>
              \A i \in 1..Len(out.value) :
                  {"Latitude", "Longitude"} \subseteq DOMAIN out.value[i]

-----------------------------------------------------------------------------
(* Claims about failed loads, under SpecCache.                             *)

\* C27: a load that fails on the download path (no payload, a payload under
\* the floor, or bytes that do not parse) leaves _df as it was and adds or
\* changes no cache file, so that the next call downloads again.
C27_FailedLoadLeavesNothing ==
    [][\A t \in Tasks :
         (DownloadEnds(t) /\ task'[t].exc # "none") =>
            /\ df' = df
            /\ files' = files
      ]_vars

-----------------------------------------------------------------------------
(* Claims about the keys of the batch lookup, under SpecInspect.           *)

\* C28: a requested URN is a key of the get_inspections_batch result
\* exactly when get_inspection returns a record for it on the same table,
\* and the result has no key that was not requested.
C28_BatchKeysAreSingleHits ==
    (op.name = "get_inspections_batch" /\ out.kind = "return") =>
        /\ DOMAIN out.value \subseteq Range(op.urns)
        /\ \A u \in Range(op.urns) :
              (u \in DOMAIN out.value) <=> ~get_inspection(mi, u).none

-----------------------------------------------------------------------------
(* Claims about a lookback hit of the GIAS download, under SpecCache.      *)

\* The date of the file that call t fetched last.
Fetched(t) == task[t].urls[Len(task[t].urls)]

\* Call t returns in this step the file of a date before today, fetched by
\* a retry of the lookback loop.
LookbackHit(t) ==
    /\ kind = "gias"
    /\ DownloadEnds(t)
    /\ Len(task[t].urls) > 1
    /\ Returned(task'[t])
    /\ Fetched(t) < today

\* Call t sends in this step a request for the file of today's date.
RequestsTodaysFile(t) ==
    /\ kind = "gias"
    /\ Len(task'[t].urls) > Len(task[t].urls)
    /\ task'[t].urls[Len(task'[t].urls)] = today

\* C29: a GIAS download that succeeds for an earlier date only stores the
\* payload in the cache file of today's key, not of the fetched date, and
\* holds its table in memory; and while the cache file of today's key
\* exists no call, of this client or of a new one, requests today's file.
C29_LookbackCachedAsToday ==
    [][\A t \in Tasks :
         /\ LookbackHit(t) =>
               /\ cache_file("gias", today) \in DOMAIN files'
               /\ files'[cache_file("gias", today)] = Good(Fetched(t))
               /\ cache_file("gias", Fetched(t)) \in DOMAIN files'
                     => cache_file("gias", Fetched(t)) \in DOMAIN files
               /\ df' = Table(Good(Fetched(t)))
         /\ RequestsTodaysFile(t) => cache_file("gias", today) \notin DOMAIN files
      ]_vars

-----------------------------------------------------------------------------
(* Claims about the renaming of keys in _row_to_dict, under SpecQuery.     *)

\* The two replacements that remove a suffix come first.
SuffixSteps == 2

\* The renaming is one-to-one on the allow-list.
InjectiveOnAllowList ==
    /\ Len(SEARCH_COLUMNS) = 27
    /\ Cardinality({CleanKeys[c] : c \in Range(SEARCH_COLUMNS)}) = 27

\* A suffix step that changes a key removes its own text from the end of
\* it; a renaming step that changes a key finds the column name, with its
\* suffix removed and untouched by an earlier renaming step, equal to the
\* text the step searches for.
EachStepOnItsOwnColumn ==
    \A c \in Range(SEARCH_COLUMNS) :
        /\ CleanKeys[c] = key_after(c, Len(Replacements))
        /\ \A n \in 1..Len(Replacements) :
               key_after(c, n) # key_after(c, n - 1) =>
                   IF n <= SuffixSteps
                      THEN key_after(c, n - 1) = key_after(c, n) \o Replacements[n][1]
                      ELSE /\ key_after(c, n - 1) = key_after(c, SuffixSteps)
                           /\ key_after(c, n - 1) = Replacements[n][1]
                           /\ key_after(c, n) = Replacements[n][2]

\* C30: the chain of replacements gives the 27 allow-listed columns 27
\* distinct keys, each step changes only the column it is written for, and
\* so every non-empty field of a row that a search returns is in the
\* record under its own key with its own value.
C30_RenamingInjective ==
    /\ InjectiveOnAllowList
    /\ EachStepOnItsOwnColumn
    /\ (op.name \in {"search_schools", "find_schools_near"} /\ out.kind = "return") =>
           LET allowed == {c \in Range(SEARCH_COLUMNS) : c \in Range(table.columns)}
           IN  \A rec \in Records :
                   \E i \in 1..Len(table.rows) :
                       \A c \in allowed :
                           LET v == table.rows[i][c] IN
                           IF is_present(v)
                              THEN CleanKeys[c] \in DOMAIN rec /\ rec[CleanKeys[c]] = v
                              ELSE CleanKeys[c] \notin DOMAIN rec

\* C30's case: a search returns a record with every allow-listed column
\* of the table, four of them renamed, under nine distinct keys.
C30_Witness ==
    /\ op.name = "search_schools"
    /\ out.kind = "return"
    /\ Len(out.value) >= 1
    /\ DOMAIN out.value[1] =
           {"URN", "name", "status", "phase", "Town", "Postcode",
            "local_authority", "Latitude", "Longitude"}

====
